---------------------------- MODULE Spec2Model ----------------------------
(***************************************************************************)
(* A model of the AuditCue Slack -> Gmail notification relay:              *)
(*   - OAuthStateStore      (package auth, state tokens)                   *)
(*   - Handler.SaveCredentials / GmailOAuthCallback, CredentialsManager    *)
(*     (package auth, the authorization flow)                             *)
(*   - Handler.HandleWebhook, Service.GetChannelMembers / getUserEmails /  *)
(*     getUserEmail          (package slack)                               *)
(*   - Service.SendEmail     (package gmail)                               *)
(***************************************************************************)
EXTENDS Integers, Sequences, FiniteSets, TLC

(***************************************************************************)
(* Bounds of the model and constants of the program.                       *)
(***************************************************************************)
\* time.Now().Add(15 * time.Minute): the clock of the model counts minutes.
TTL == 15
\* The clock advances ClockUnit minutes at a time and stops at MaxTime; tokens
\* are issued no later than MaxIssueTime.
ClockUnit == 5
MaxTime == 25
MaxIssueTime == 5

\* The token values rand.Read can still produce, the owning users, and the
\* request handlers that may call into the state store concurrently.
Tokens == {"s1", "s2"}
Owners == {"owner1", "owner2"}
Procs == {"p1", "p2"}

VARIABLES
    \* ---- OAuthStateStore and its callers
    states,     \* OAuthStateStore.states: token -> [userID, expiry]
    mu,         \* OAuthStateStore.mu: "free" or the process holding it
    now,        \* the wall clock time.Now() reads, in minutes
    drawn,      \* token values rand.Read has produced so far
    ppc,        \* per process: position inside GenerateState / ValidateState
    parg,       \* per process: the call's arguments [userID, state]
    plocal,     \* per process: ValidateState's locals [exists, data]
    lastV,      \* history: the last ValidateState call to return, and its result
    issued,     \* history: token -> [userID, at] once GenerateState stored it
    okCount     \* history: token -> number of ValidateState calls that returned valid

storeVars == <<states, mu, now, drawn, ppc, parg, plocal, lastV, issued, okCount>>

VARIABLES
    \* ---- Handler.HandleWebhook and the recipient resolution it drives
    hpc,          \* position of the request handler inside HandleWebhook
    req,          \* the request body handed to HandleWebhook
    owner,        \* userID, the owner GetUserIDForTeam returned
    mapConsulted, \* history: GetUserIDForTeam was called
    ctxExpired,   \* the 25 s context of the request is done
    senderRes,    \* what getUserEmail returned for the sender
    listed,       \* member ids as conversations.members returned them
    listCalls,    \* history: number of GetChannelMembers calls
    userIDs,      \* the ids handed to getUserEmails
    gpc,          \* per member goroutine: its position
    gres,         \* per member goroutine: what its getUserEmail returned
    semaphore,    \* number of tokens in the semaphore channel
    wg,           \* the WaitGroup counter
    resultChan,   \* the buffered result channel
    chanClosed,   \* resultChan is closed
    emails,       \* getUserEmails' emails slice
    ret,          \* what GetChannelMembers returned: "none", "ok" or "err"
    recipients,   \* the handler's recipients slice
    resp,         \* the HTTP response written: [status, body]
    dispatched,   \* SendEmail calls launched in the background
    crashed       \* an unrecovered panic ended the process

hookVars == <<hpc, req, owner, mapConsulted, ctxExpired, senderRes, listed, listCalls,
              userIDs, gpc, gres, semaphore, wg, resultChan, chanClosed, emails, ret,
              recipients, resp, dispatched, crashed>>

NoArg == [userID |-> "", state |-> ""]
NoData == [userID |-> "", expiry |-> 0]
NoLocal == [exists |-> FALSE, data |-> NoData]
NoCall == [state |-> "", userID |-> "", valid |-> FALSE, wasIssued |-> FALSE,
           late |-> FALSE, consumedBefore |-> FALSE, done |-> FALSE]
NotIssued == [userID |-> "", at |-> -1]

\* NewOAuthStateStore: an empty map, an unlocked mutex.
InitStore ==
    /\ states = [t \in {} |-> NoData]
    /\ mu = "free"
    /\ now = 0
    /\ drawn = {}
    /\ ppc = [p \in Procs |-> "idle"]
    /\ parg = [p \in Procs |-> NoArg]
    /\ plocal = [p \in Procs |-> NoLocal]
    /\ lastV = NoCall
    /\ issued = [t \in Tokens |-> NotIssued]
    /\ okCount = [t \in Tokens |-> 0]

\* Go's delete(m, k).
MapDelete(m, k) == [t \in (DOMAIN m) \ {k} |-> m[t]]

\* m[k] = v.
MapPut(m, k, v) == [t \in (DOMAIN m) \cup {k} |-> IF t = k THEN v ELSE m[t]]

\* time.Time.After: strictly later.
After(t, u) == t > u

\* A mutex that excludes nobody.
MuAvailableNoExclusion(p) == TRUE

\* s.mu.Lock() can return for p.
MuAvailable(p) == mu = "free"

\* GenerateState, lines 32-36: rand.Read fails (the call returns "", err and
\* changes nothing), or
\* yields 32 random bytes; a value of that entropy has not been produced before.
GenBegin(p, u) ==
    /\ ppc[p] = "idle"
    /\ now <= MaxIssueTime
    /\ \/ UNCHANGED <<ppc, parg, drawn>>
       \/ \E t \in Tokens \ drawn :
             /\ drawn' = drawn \cup {t}
             /\ parg' = [parg EXCEPT ![p] = [userID |-> u, state |-> t]]
             /\ ppc' = [ppc EXCEPT ![p] = "g_lock"]
    /\ UNCHANGED <<states, mu, now, plocal, lastV, issued, okCount>>

\* GenerateState, line 39: s.mu.Lock().
GenLock(p) ==
    /\ ppc[p] = "g_lock"
    /\ MuAvailable(p)
    /\ mu' = p
    /\ ppc' = [ppc EXCEPT ![p] = "g_insert"]
    /\ UNCHANGED <<states, now, drawn, parg, plocal, lastV, issued, okCount>>

\* GenerateState, lines 42-45: store the state with its expiry.
GenInsert(p) ==
    /\ ppc[p] = "g_insert"
    /\ states' = MapPut(states, parg[p].state,
                        [userID |-> parg[p].userID, expiry |-> now + TTL])
    /\ issued' = [issued EXCEPT ![parg[p].state] = [userID |-> parg[p].userID, at |-> now]]
    /\ ppc' = [ppc EXCEPT ![p] = "g_cleanup"]
    /\ UNCHANGED <<mu, now, drawn, parg, plocal, lastV, okCount>>

\* cleanupExpiredStates that also drops the states expiring exactly now.
cleanupExpiredStatesInclusive(m, t) ==
    [s \in {x \in DOMAIN m : ~(t >= m[x].expiry)} |-> m[s]]

\* cleanupExpiredStates: delete every state whose expiry the clock has passed.
cleanupExpiredStates(m, t) ==
    [s \in {x \in DOMAIN m : ~After(t, m[x].expiry)} |-> m[s]]

\* GenerateState, lines 48-50: clean up, return the state, unlock (deferred).
GenCleanup(p) ==
    /\ ppc[p] = "g_cleanup"
    /\ states' = cleanupExpiredStates(states, now)
    /\ mu' = "free"
    /\ ppc' = [ppc EXCEPT ![p] = "idle"]
    /\ parg' = [parg EXCEPT ![p] = NoArg]
    /\ UNCHANGED <<now, drawn, plocal, lastV, issued, okCount>>

\* A caller presents a token value to ValidateState.
ValBegin(p, t) ==
    /\ ppc[p] = "idle"
    /\ parg' = [parg EXCEPT ![p] = [userID |-> "", state |-> t]]
    /\ ppc' = [ppc EXCEPT ![p] = "v_lock"]
    /\ UNCHANGED <<states, mu, now, drawn, plocal, lastV, issued, okCount>>

\* ValidateState, line 55: s.mu.Lock().
ValLock(p) ==
    /\ ppc[p] = "v_lock"
    /\ MuAvailable(p)
    /\ mu' = p
    /\ ppc' = [ppc EXCEPT ![p] = "v_read"]
    /\ UNCHANGED <<states, now, drawn, parg, plocal, lastV, issued, okCount>>

\* ValidateState, line 58: stateData, exists := s.states[state].
ValRead(p) ==
    /\ ppc[p] = "v_read"
    /\ LET t == parg[p].state
           ex == t \in DOMAIN states
       IN plocal' = [plocal EXCEPT ![p] =
                        [exists |-> ex, data |-> IF ex THEN states[t] ELSE NoData]]
    /\ ppc' = [ppc EXCEPT ![p] = "v_check"]
    /\ UNCHANGED <<states, mu, now, drawn, parg, lastV, issued, okCount>>

\* ValidateState's outcome that keeps a validated state in the map.
ValidateOutcomeKeep(m, t, loc, clock) ==
    IF ~loc.exists THEN [states |-> m, userID |-> "", valid |-> FALSE]
    ELSE IF After(clock, loc.data.expiry)
         THEN [states |-> MapDelete(m, t), userID |-> "", valid |-> FALSE]
         ELSE [states |-> m, userID |-> loc.data.userID, valid |-> TRUE]

\* ValidateState's outcome that takes a state expiring exactly now for expired.
ValidateOutcomeEarly(m, t, loc, clock) ==
    IF ~loc.exists THEN [states |-> m, userID |-> "", valid |-> FALSE]
    ELSE IF clock >= loc.data.expiry
         THEN [states |-> MapDelete(m, t), userID |-> "", valid |-> FALSE]
         ELSE [states |-> MapDelete(m, t), userID |-> loc.data.userID, valid |-> TRUE]

\* ValidateState's outcome that names the user of an expired state.
ValidateOutcomeExpiredNamed(m, t, loc, clock) ==
    IF ~loc.exists THEN [states |-> m, userID |-> "", valid |-> FALSE]
    ELSE IF After(clock, loc.data.expiry)
         THEN [states |-> MapDelete(m, t), userID |-> loc.data.userID, valid |-> FALSE]
         ELSE [states |-> MapDelete(m, t), userID |-> loc.data.userID, valid |-> TRUE]

\* ValidateState, lines 59-71: unknown -> invalid; expired -> delete, invalid;
\* otherwise delete (one-time use) and return the user.
ValidateOutcome(m, t, loc, clock) ==
    IF ~loc.exists THEN [states |-> m, userID |-> "", valid |-> FALSE]
    ELSE IF After(clock, loc.data.expiry)
         THEN [states |-> MapDelete(m, t), userID |-> "", valid |-> FALSE]
         ELSE [states |-> MapDelete(m, t), userID |-> loc.data.userID, valid |-> TRUE]

\* ValidateState, lines 59-71, then the deferred Unlock.
ValCheck(p) ==
    /\ ppc[p] = "v_check"
    /\ LET t == parg[p].state
           r == ValidateOutcome(states, t, plocal[p], now)
       IN /\ states' = r.states
          /\ lastV' = [state |-> t, userID |-> r.userID, valid |-> r.valid,
                       wasIssued |-> issued[t] # NotIssued,
                       late |-> issued[t] # NotIssued /\ now > issued[t].at + TTL,
                       consumedBefore |-> okCount[t] > 0, done |-> TRUE]
          /\ okCount' = [okCount EXCEPT ![t] = IF r.valid THEN @ + 1 ELSE @]
    /\ mu' = "free"
    /\ ppc' = [ppc EXCEPT ![p] = "idle"]
    /\ parg' = [parg EXCEPT ![p] = NoArg]
    /\ plocal' = [plocal EXCEPT ![p] = NoLocal]
    /\ UNCHANGED <<now, drawn, issued>>

\* Time passes. The mutex is held only across a few map operations, which take
\* less than the clock's unit: the clock does not advance while it is held.
Tick ==
    /\ now < MaxTime
    /\ mu = "free"
    /\ now' = now + ClockUnit
    /\ UNCHANGED <<states, mu, drawn, ppc, parg, plocal, lastV, issued, okCount>>

(***************************************************************************)
(* The webhook handler (package slack).                                    *)
(***************************************************************************)
\* The integrations table (team -> owner) and the owners with stored
\* credentials: owner2 registered a team but has no credential record.
TeamMapping == [t \in {"T1", "T2"} |-> IF t = "T1" THEN "owner1" ELSE "owner2"]
CredentialOwners == {"owner1"}
Emails == {"a@x.com", "b@x.com"}

\* maxUsers := 50 in GetChannelMembers; the semaphore's capacity in getUserEmails.
maxUsers == 50
SemaphoreCap == 5
\* The longest member listing the end-to-end specification draws.
MaxMembers == 3

\* JSON string text on the wire, as a sequence of tokens: a plain character,
\* a literal '<', its six-character escape, or a byte that is not UTF-8.
WireTokens == {"x", "<", "\\u003c", "\\xff"}
WireStrings == {<<>>} \cup {<<a>> : a \in WireTokens}
                      \cup {<<a, b>> : a \in {"x"}, b \in WireTokens}

\* encoding/json decoding a string: an escape yields the character it names,
\* invalid UTF-8 yields the replacement character.
RECURSIVE JsonDecodeString(_)
JsonDecodeString(w) ==
    IF w = <<>> THEN <<>>
    ELSE <<CASE Head(w) = "\\u003c" -> "<"
             [] Head(w) = "\\xff" -> "U+FFFD"
             [] OTHER -> Head(w)>> \o JsonDecodeString(Tail(w))

\* json.Encoder (EscapeHTML on) encoding a string: '<' is written as its escape.
RECURSIVE JsonEncodeString(_)
JsonEncodeString(v) ==
    IF v = <<>> THEN <<>>
    ELSE <<IF Head(v) = "<" THEN "\\u003c" ELSE Head(v)>> \o JsonEncodeString(Tail(v))

\* Request bodies. json: "unreadable" (io.ReadAll fails), "invalid" (not JSON)
\* or "object"; chalKind: the challenge member is a string, a number or absent.
NoBody == [json |-> "none", type |-> "", chalKind |-> "absent", challenge |-> <<>>,
           team |-> "", etype |-> "", subtype |-> "", bot |-> "", user |-> 0]
JunkBodies == {[NoBody EXCEPT !.json = j] : j \in {"unreadable", "invalid"}}
ChallengeBodies ==
    {[NoBody EXCEPT !.json = "object", !.type = "url_verification",
                    !.chalKind = k, !.challenge = c] :
        k \in {"string"}, c \in WireStrings}
    \cup {[NoBody EXCEPT !.json = "object", !.type = "url_verification", !.chalKind = k] :
        k \in {"number", "absent"}}
EventBodies ==
    {[NoBody EXCEPT !.json = "object", !.type = ty, !.team = tm, !.etype = et,
                    !.subtype = st, !.bot = b, !.user = 1] :
        ty \in {"event_callback", "app_rate_limited"}, tm \in {"", "T1", "T2", "T9"},
        et \in {"message", "reaction_added"},
        st \in {"", "message_changed", "bot_message"}, b \in {"", "B1"}}
Bodies == JunkBodies \cup ChallengeBodies \cup EventBodies

\* json.Unmarshal(body, &challenge): fails on a body that is not JSON and on a
\* member of the wrong type; an absent member leaves the zero value.
UnmarshalChallenge(b) ==
    IF b.json # "object" \/ b.chalKind = "number"
    THEN [err |-> TRUE, Type |-> "", Challenge |-> <<>>]
    ELSE [err |-> FALSE, Type |-> b.type, Challenge |-> JsonDecodeString(b.challenge)]

\* json.Unmarshal(body, &event): members the struct does not name are ignored.
UnmarshalEvent(b) ==
    IF b.json # "object"
    THEN [err |-> TRUE, Type |-> "", TeamID |-> "", EType |-> "", Subtype |-> "",
          BotID |-> "", User |-> 0]
    ELSE [err |-> FALSE, Type |-> b.type, TeamID |-> b.team, EType |-> b.etype,
          Subtype |-> b.subtype, BotID |-> b.bot, User |-> b.user]

\* IntegrationStore.GetUserIDForTeam: the row's user, or ("", false) when there
\* is no row or the query fails.
GetUserIDForTeam(team) ==
    {[userID |-> "", exists |-> FALSE]}
    \cup (IF team \in DOMAIN TeamMapping
          THEN {[userID |-> TeamMapping[team], exists |-> TRUE]} ELSE {})

NoResp == [status |-> 0, body |-> "", challenge |-> <<>>]
Reply(st, b) == [status |-> st, body |-> b, challenge |-> <<>>]
\* utils.RespondJSON(w, 200, {"challenge": c}): the body, as wire text.
ChallengeReply(c) == [status |-> 200, body |-> "challenge", challenge |-> JsonEncodeString(c)]

IsIgnoredMessage(ev) ==
    ev.BotID # "" \/ ev.Subtype = "message_changed" \/ ev.Subtype = "bot_message"

\* Classification that takes a missing mapping row for an owner named "".
ClassifyNoMappingCheck(b, lk) ==
    LET ch == UnmarshalChallenge(b)
        ev == UnmarshalEvent(b)
        out(r, c, o, go) == [resp |-> r, consulted |-> c, owner |-> o, process |-> go]
    IN  IF b.json = "unreadable" THEN out(Reply(400, "Invalid request"), FALSE, "", FALSE)
        ELSE IF ~ch.err /\ ch.Type = "url_verification"
        THEN out(ChallengeReply(ch.Challenge), FALSE, "", FALSE)
        ELSE IF ev.err THEN out(Reply(400, "Invalid event JSON"), FALSE, "", FALSE)
        ELSE IF ev.Type # "event_callback" THEN out(Reply(200, "Event received"), FALSE, "", FALSE)
        ELSE IF ev.TeamID = "" THEN out(Reply(400, "No team ID in event"), FALSE, "", FALSE)
        ELSE IF ev.EType # "message" THEN out(Reply(200, "Event received"), TRUE, lk.userID, FALSE)
        ELSE IF IsIgnoredMessage(ev) THEN out(Reply(200, ""), TRUE, lk.userID, FALSE)
        ELSE out(NoResp, TRUE, lk.userID, TRUE)

\* Classification that parses the event envelope before looking for a challenge.
ClassifyChallengeLate(b, lk) ==
    LET ch == UnmarshalChallenge(b)
        ev == UnmarshalEvent(b)
        out(r, c, o, go) == [resp |-> r, consulted |-> c, owner |-> o, process |-> go]
    IN  IF b.json = "unreadable" THEN out(Reply(400, "Invalid request"), FALSE, "", FALSE)
        ELSE IF ev.err THEN out(Reply(400, "Invalid event JSON"), FALSE, "", FALSE)
        ELSE IF ev.Type # "event_callback" THEN out(Reply(200, "Event received"), FALSE, "", FALSE)
        ELSE IF ~ch.err /\ ch.Type = "url_verification"
        THEN out(ChallengeReply(ch.Challenge), FALSE, "", FALSE)
        ELSE IF ev.TeamID = "" THEN out(Reply(400, "No team ID in event"), FALSE, "", FALSE)
        ELSE IF ~lk.exists THEN out(Reply(404, "Integration not found"), TRUE, "", FALSE)
        ELSE IF ev.EType # "message" THEN out(Reply(200, "Event received"), TRUE, lk.userID, FALSE)
        ELSE IF IsIgnoredMessage(ev) THEN out(Reply(200, ""), TRUE, lk.userID, FALSE)
        ELSE out(NoResp, TRUE, lk.userID, TRUE)

\* Classification that answers a body it cannot parse like an unhandled event.
ClassifyJunkAccepted(b, lk) ==
    LET ch == UnmarshalChallenge(b)
        ev == UnmarshalEvent(b)
        out(r, c, o, go) == [resp |-> r, consulted |-> c, owner |-> o, process |-> go]
    IN  IF b.json = "unreadable" THEN out(Reply(400, "Invalid request"), FALSE, "", FALSE)
        ELSE IF ~ch.err /\ ch.Type = "url_verification"
        THEN out(ChallengeReply(ch.Challenge), FALSE, "", FALSE)
        ELSE IF ev.err THEN out(Reply(200, "Event received"), FALSE, "", FALSE)
        ELSE IF ev.Type # "event_callback" THEN out(Reply(200, "Event received"), FALSE, "", FALSE)
        ELSE IF ev.TeamID = "" THEN out(Reply(400, "No team ID in event"), FALSE, "", FALSE)
        ELSE IF ~lk.exists THEN out(Reply(404, "Integration not found"), TRUE, "", FALSE)
        ELSE IF ev.EType # "message" THEN out(Reply(200, "Event received"), TRUE, lk.userID, FALSE)
        ELSE IF IsIgnoredMessage(ev) THEN out(Reply(200, ""), TRUE, lk.userID, FALSE)
        ELSE out(NoResp, TRUE, lk.userID, TRUE)

\* Classification that hands an empty team id to the mapping lookup.
ClassifyNoTeamCheck(b, lk) ==
    LET ch == UnmarshalChallenge(b)
        ev == UnmarshalEvent(b)
        out(r, c, o, go) == [resp |-> r, consulted |-> c, owner |-> o, process |-> go]
    IN  IF b.json = "unreadable" THEN out(Reply(400, "Invalid request"), FALSE, "", FALSE)
        ELSE IF ~ch.err /\ ch.Type = "url_verification"
        THEN out(ChallengeReply(ch.Challenge), FALSE, "", FALSE)
        ELSE IF ev.err THEN out(Reply(400, "Invalid event JSON"), FALSE, "", FALSE)
        ELSE IF ev.Type # "event_callback" THEN out(Reply(200, "Event received"), FALSE, "", FALSE)
        ELSE IF ~lk.exists THEN out(Reply(404, "Integration not found"), TRUE, "", FALSE)
        ELSE IF ev.EType # "message" THEN out(Reply(200, "Event received"), TRUE, lk.userID, FALSE)
        ELSE IF IsIgnoredMessage(ev) THEN out(Reply(200, ""), TRUE, lk.userID, FALSE)
        ELSE out(NoResp, TRUE, lk.userID, TRUE)

\* HandleWebhook up to the point where processing of a message starts: the
\* response it writes, or the decision to process. lk is what GetUserIDForTeam
\* returns if it is called.
Classify(b, lk) ==
    LET ch == UnmarshalChallenge(b)
        ev == UnmarshalEvent(b)
        out(r, c, o, go) == [resp |-> r, consulted |-> c, owner |-> o, process |-> go]
    IN  IF b.json = "unreadable" THEN out(Reply(400, "Invalid request"), FALSE, "", FALSE)
        ELSE IF ~ch.err /\ ch.Type = "url_verification"
        THEN out(ChallengeReply(ch.Challenge), FALSE, "", FALSE)
        ELSE IF ev.err THEN out(Reply(400, "Invalid event JSON"), FALSE, "", FALSE)
        ELSE IF ev.Type # "event_callback" THEN out(Reply(200, "Event received"), FALSE, "", FALSE)
        ELSE IF ev.TeamID = "" THEN out(Reply(400, "No team ID in event"), FALSE, "", FALSE)
        ELSE IF ~lk.exists THEN out(Reply(404, "Integration not found"), TRUE, "", FALSE)
        ELSE IF ev.EType # "message" THEN out(Reply(200, "Event received"), TRUE, lk.userID, FALSE)
        ELSE IF IsIgnoredMessage(ev) THEN out(Reply(200, ""), TRUE, lk.userID, FALSE)
        ELSE out(NoResp, TRUE, lk.userID, TRUE)

NoOutcome == [kind |-> "none", email |-> ""]
ErrOutcome == [kind |-> "err", email |-> ""]
PanicOutcome == [kind |-> "panic", email |-> ""]
OkOutcome(e) == [kind |-> "ok", email |-> e]

\* What one getUserEmail call can return: an error (no stored Slack token, a
\* transport error, a done context, ok:false, no user or profile object), a
\* panic (the response has no boolean "ok"), or the profile's email, "" when
\* the profile has none. A call made on a done context fails.
getUserEmail(ownerID, expired) ==
    IF ownerID \notin CredentialOwners \/ expired
    THEN {ErrOutcome}
    ELSE {ErrOutcome, PanicOutcome} \cup {OkOutcome(e) : e \in Emails \cup {""}}

\* The handler is idle: no request yet.
InitHook ==
    /\ hpc = "idle"
    /\ req = NoBody
    /\ owner = ""
    /\ mapConsulted = FALSE
    /\ ctxExpired = FALSE
    /\ senderRes = NoOutcome
    /\ listed = <<>>
    /\ listCalls = 0
    /\ userIDs = <<>>
    /\ gpc = <<>>
    /\ gres = <<>>
    /\ semaphore = 0
    /\ wg = 0
    /\ resultChan = <<>>
    /\ chanClosed = FALSE
    /\ emails = <<>>
    /\ ret = "none"
    /\ recipients = <<>>
    /\ resp = NoResp
    /\ dispatched = <<>>
    /\ crashed = FALSE

\* HandleWebhook, lines 34-111: read the body, classify, respond or go on.
Receive(b) ==
    /\ hpc = "idle" /\ ~crashed
    /\ \E lk \in GetUserIDForTeam(b.team) :
          LET c == Classify(b, lk)
          IN /\ req' = b
             /\ resp' = c.resp
             /\ mapConsulted' = c.consulted
             /\ owner' = c.owner
             /\ hpc' = IF c.process THEN "sender" ELSE "done"
    /\ UNCHANGED <<ctxExpired, senderRes, listed, listCalls, userIDs, gpc, gres, semaphore,
                   wg, resultChan, chanClosed, emails, ret, recipients, dispatched, crashed>>

\* The request's context ends: the 25 s deadline passes or the client goes away.
DeadlineExpires ==
    /\ hpc \in {"sender", "list", "collect"} /\ ~crashed
    /\ ~ctxExpired
    /\ ctxExpired' = TRUE
    /\ UNCHANGED <<hpc, req, owner, mapConsulted, senderRes, listed, listCalls, userIDs, gpc,
                   gres, semaphore, wg, resultChan, chanClosed, emails, ret, recipients,
                   resp, dispatched, crashed>>

\* A handler that gives up when the sender's email cannot be had.
AfterSenderLookupRequired(o) == IF o.kind = "err" THEN "done" ELSE "list"

\* HandleWebhook, lines 115-121: the error is logged and processing continues
\* with the member listing either way.
AfterSenderLookup(o) == "list"

\* HandleWebhook, lines 113-121: the sender's email, best effort. A panic in the
\* handler's goroutine is recovered by middleware.Recovery, which answers 500.
SenderLookup ==
    /\ hpc = "sender" /\ ~crashed
    /\ \E o \in getUserEmail(owner, ctxExpired) :
          IF o.kind = "panic"
          THEN /\ resp' = Reply(500, "Internal server error")
               /\ hpc' = "done"
               /\ UNCHANGED senderRes
          ELSE /\ senderRes' = o
               /\ hpc' = AfterSenderLookup(o)
               /\ UNCHANGED resp
    /\ UNCHANGED <<req, owner, mapConsulted, ctxExpired, listed, listCalls, userIDs, gpc, gres,
                   semaphore, wg, resultChan, chanClosed, emails, ret, recipients,
                   dispatched, crashed>>

\* GetChannelMembers, lines 92-97: at most maxUsers ids, but the last ones.
TruncateKeepLast(ids) ==
    IF Len(ids) > maxUsers THEN SubSeq(ids, Len(ids) - maxUsers + 1, Len(ids)) ELSE ids

\* GetChannelMembers, lines 92-97: userIDs = userIDs[:maxUsers] when longer.
Truncate(ids) ==
    IF Len(ids) > maxUsers THEN SubSeq(ids, 1, maxUsers) ELSE ids

\* A listing that goes to Slack without the owner's stored token.
ListOutcomesNoCredentialCheck(ownerID, expired, lens) ==
    IF expired
    THEN {[kind |-> "err", members |-> <<>>]}
    ELSE {[kind |-> "err", members |-> <<>>], [kind |-> "panic", members |-> <<>>]}
         \cup {[kind |-> "ok", members |-> [i \in 1..n |-> i]] : n \in lens}

\* What conversations.members can yield inside GetChannelMembers: an error (no
\* stored Slack token, transport error, done context, ok:false, members not an
\* array), a panic (no boolean "ok"), or the member ids 1..n.
ListOutcomes(ownerID, expired, lens) ==
    IF ownerID \notin CredentialOwners \/ expired
    THEN {[kind |-> "err", members |-> <<>>]}
    ELSE {[kind |-> "err", members |-> <<>>], [kind |-> "panic", members |-> <<>>]}
         \cup {[kind |-> "ok", members |-> [i \in 1..n |-> i]] : n \in lens}

\* HandleWebhook line 126 calling GetChannelMembers, lines 29-102, and the
\* loop of getUserEmails, lines 114-152, that starts one goroutine per id and
\* the goroutine that closes the channel. The loop only creates goroutines,
\* which is indistinguishable from creating them all at once.
ListMembers(lens) ==
    /\ hpc = "list" /\ ~crashed
    /\ listCalls' = listCalls + 1
    /\ \E r \in ListOutcomes(owner, ctxExpired, lens) :
          CASE r.kind = "err" ->
                 /\ resp' = Reply(500, "Error fetching users")
                 /\ ret' = "err"
                 /\ hpc' = "done"
                 /\ UNCHANGED <<listed, userIDs, gpc, gres, wg>>
            [] r.kind = "panic" ->
                 /\ resp' = Reply(500, "Internal server error")
                 /\ hpc' = "done"
                 /\ UNCHANGED <<listed, userIDs, gpc, gres, wg, ret>>
            [] OTHER ->
                 /\ listed' = r.members
                 /\ userIDs' = Truncate(r.members)
                 /\ gpc' = [i \in 1..Len(userIDs') |-> "acquire"]
                 /\ gres' = [i \in 1..Len(userIDs') |-> NoOutcome]
                 /\ wg' = Len(userIDs')
                 /\ hpc' = "collect"
                 /\ UNCHANGED <<resp, ret>>
    /\ UNCHANGED <<req, owner, mapConsulted, ctxExpired, senderRes, semaphore, resultChan,
                   chanClosed, emails, recipients, dispatched, crashed>>

\* A semaphore that admits everybody.
SemaphoreHasRoomAlways == TRUE

\* semaphore <- struct{}{} can proceed: the channel of capacity 5 is not full.
SemaphoreHasRoom == semaphore < SemaphoreCap

\* Member goroutine, line 129: acquire the semaphore.
Acquire(i) ==
    /\ ~crashed
    /\ i \in DOMAIN gpc /\ gpc[i] = "acquire"
    /\ SemaphoreHasRoom
    /\ semaphore' = semaphore + 1
    /\ gpc' = [gpc EXCEPT ![i] = "lookup"]
    /\ UNCHANGED <<hpc, req, owner, mapConsulted, ctxExpired, senderRes, listed, listCalls,
                   userIDs, gres, wg, resultChan, chanClosed, emails, ret, recipients, resp,
                   dispatched, crashed>>

\* Member goroutine, lines 133-144: getUserEmail under the 3 s child context
\* returns and the result is sent on resultChan, whose capacity len(userIDs)
\* never blocks the send. A panic here is recovered by nobody: the process ends.
Lookup(i, outs) ==
    /\ ~crashed
    /\ i \in DOMAIN gpc /\ gpc[i] = "lookup"
    /\ \E o \in getUserEmail(owner, ctxExpired) \cap outs :
          /\ gres' = [gres EXCEPT ![i] = o]
          /\ IF o.kind = "panic"
             THEN /\ crashed' = TRUE
                  /\ UNCHANGED <<gpc, resultChan>>
             ELSE /\ resultChan' = Append(resultChan,
                                          [email |-> o.email, err |-> o.kind = "err"])
                  /\ gpc' = [gpc EXCEPT ![i] = "release"]
                  /\ UNCHANGED crashed
    /\ UNCHANGED <<hpc, req, owner, mapConsulted, ctxExpired, senderRes, listed, listCalls,
                   userIDs, semaphore, wg, chanClosed, emails, ret, recipients, resp,
                   dispatched>>

\* A deferred function that forgets to receive from the semaphore.
SemaphoreAfterReleaseLeaked(s) == s

\* defer func() { <-semaphore }(): one token leaves the channel.
SemaphoreAfterRelease(s) == s - 1

\* Member goroutine, deferred calls of lines 127-134: cancel the child context,
\* release the semaphore, wg.Done().
Release(i) ==
    /\ ~crashed
    /\ i \in DOMAIN gpc /\ gpc[i] = "release"
    /\ semaphore' = SemaphoreAfterRelease(semaphore)
    /\ wg' = wg - 1
    /\ gpc' = [gpc EXCEPT ![i] = "done"]
    /\ UNCHANGED <<hpc, req, owner, mapConsulted, ctxExpired, senderRes, listed, listCalls,
                   userIDs, gres, resultChan, chanClosed, emails, ret, recipients, resp,
                   dispatched, crashed>>

\* A closing goroutine that does not wait for the members.
WaitReturnsAtOnce == TRUE

\* wg.Wait() returns: every member goroutine has called wg.Done().
WaitReturns == wg = 0

\* getUserEmails, lines 149-152: wg.Wait() returns, close(resultChan).
CloseResults ==
    /\ hpc = "collect" /\ ~crashed
    /\ WaitReturns /\ ~chanClosed
    /\ chanClosed' = TRUE
    /\ UNCHANGED <<hpc, req, owner, mapConsulted, ctxExpired, senderRes, listed, listCalls,
                   userIDs, gpc, gres, semaphore, wg, resultChan, emails, ret, recipients,
                   resp, dispatched, crashed>>

\* The collecting loop's body that keeps every result that is not an error.
CollectOneKeepEmpty(es, r) ==
    IF r.err THEN es ELSE Append(es, r.email)

\* getUserEmails, lines 156-166: skip an error, keep a non-empty email.
CollectOne(es, r) ==
    IF r.err THEN es
    ELSE IF r.email # "" THEN Append(es, r.email) ELSE es

\* getUserEmails, line 155: receive one result.
Collect ==
    /\ hpc = "collect" /\ ~crashed
    /\ resultChan # <<>>
    /\ emails' = CollectOne(emails, Head(resultChan))
    /\ resultChan' = Tail(resultChan)
    /\ UNCHANGED <<hpc, req, owner, mapConsulted, ctxExpired, senderRes, listed, listCalls,
                   userIDs, gpc, gres, semaphore, wg, chanClosed, ret, recipients, resp,
                   dispatched, crashed>>

\* A collecting loop that stops as soon as it finds the channel empty.
RangeLoopEndsWhenEmpty == resultChan = <<>>

\* for result := range resultChan ends: the channel is drained and closed.
RangeLoopEnds == resultChan = <<>> /\ chanClosed

\* getUserEmails, lines 155 and 169-170: the channel is closed and drained, the
\* loop ends, (emails, nil) is returned through GetChannelMembers.
ReturnEmails ==
    /\ hpc = "collect" /\ ~crashed
    /\ RangeLoopEnds
    /\ ret' = "ok"
    /\ hpc' = "respond"
    /\ UNCHANGED <<req, owner, mapConsulted, ctxExpired, senderRes, listed, listCalls, userIDs,
                   gpc, gres, semaphore, wg, resultChan, chanClosed, emails, recipients, resp,
                   dispatched, crashed>>

\* The recipients loop without the comparison with the sender's email.
ExcludeSenderNever(es, sender) == SelectSeq(es, LAMBDA e : e # "")

\* The recipients loop that drops the sender's email only where it first occurs.
RECURSIVE ExcludeSenderFirstOnly(_, _)
ExcludeSenderFirstOnly(es, sender) ==
    IF es = <<>> THEN <<>>
    ELSE IF Head(es) = sender THEN SelectSeq(Tail(es), LAMBDA e : e # "")
    ELSE (IF Head(es) # "" THEN <<Head(es)>> ELSE <<>>) \o ExcludeSenderFirstOnly(Tail(es), sender)

\* HandleWebhook, lines 135-141: recipients are the emails that are neither the
\* sender's email nor empty.
ExcludeSender(es, sender) == SelectSeq(es, LAMBDA e : e # sender /\ e # "")

\* A handler that never takes the no-recipients branch.
NoRecipientsNever(rs) == FALSE

\* HandleWebhook, line 143: len(recipients) == 0.
NoRecipients(rs) == Len(rs) = 0

\* HandleWebhook, lines 143-161: answer "no recipients", or answer that the
\* message is being processed.
Respond ==
    /\ hpc = "respond" /\ ~crashed
    /\ recipients' = ExcludeSender(emails, senderRes.email)
    /\ IF NoRecipients(recipients')
       THEN /\ resp' = Reply(200, "No recipients to send email to")
            /\ hpc' = "done"
       ELSE /\ resp' = Reply(200, "Message received and processing")
            /\ hpc' = "launch"
    /\ UNCHANGED <<req, owner, mapConsulted, ctxExpired, senderRes, listed, listCalls, userIDs,
                   gpc, gres, semaphore, wg, resultChan, chanClosed, emails, ret, dispatched,
                   crashed>>

\* HandleWebhook, lines 163-172: go SendEmail(userID, strings.Join(recipients, ","), ...).
Launch ==
    /\ hpc = "launch" /\ ~crashed
    /\ dispatched' = Append(dispatched, [userID |-> owner, to |-> recipients])
    /\ hpc' = "done"
    /\ UNCHANGED <<req, owner, mapConsulted, ctxExpired, senderRes, listed, listCalls, userIDs,
                   gpc, gres, semaphore, wg, resultChan, chanClosed, emails, ret, recipients,
                   resp, crashed>>

\* HandleWebhook returns on the path that created ctx: the deferred cancel()
\* of line 111 ends the request's context.
RequestEnds ==
    /\ hpc = "done" /\ ~crashed
    /\ Classify(req, [userID |-> owner, exists |-> owner # ""]).process
    /\ ~ctxExpired
    /\ ctxExpired' = TRUE
    /\ UNCHANGED <<hpc, req, owner, mapConsulted, senderRes, listed, listCalls, userIDs, gpc,
                   gres, semaphore, wg, resultChan, chanClosed, emails, ret, recipients,
                   resp, dispatched, crashed>>

\* Number of member goroutines inside getUserEmail.
InFlight == Cardinality({i \in DOMAIN gpc : gpc[i] = "lookup"})

\* Indices of the member goroutines that have called getUserEmail.
LookupStarted == {i \in DOMAIN gpc : gpc[i] \in {"lookup", "release", "done"}}

AllOutcomes == {ErrOutcome, PanicOutcome} \cup {OkOutcome(e) : e \in Emails \cup {""}}

(***************************************************************************)
(* Service.SendEmail (package gmail).                                      *)
(***************************************************************************)
VARIABLES
    mpc,          \* position inside SendEmail
    margs,        \* SendEmail's arguments [userID, to]
    mctxDone,     \* SendEmail's own 30 s context is done
    attempt,      \* the loop variable attempt
    backoff,      \* the variable backoff, in seconds
    acqAttempts,  \* history: GetGmailService calls made
    sendAttempts, \* history: Messages.Send calls made
    sleeps        \* history: the time.Sleep calls made, [phase, seconds]

mailVars == <<mpc, margs, mctxDone, attempt, backoff, acqAttempts, sendAttempts, sleeps>>

\* "attempt <= 3" of both retry loops and "backoff = 1 * time.Second".
MaxAttempts == 3
InitialBackoff == 1

NoMail == [userID |-> "", to |-> <<>>]
\* The recipient lists SendEmail is called with.
MailRecipients == {<<"a@x.com">>, <<"b@x.com">>, <<"a@x.com", "b@x.com">>,
                   <<"b@x.com", "b@x.com">>}

InitMail ==
    /\ mpc = "idle"
    /\ margs = NoMail
    /\ mctxDone = FALSE
    /\ attempt = 0
    /\ backoff = 0
    /\ acqAttempts = 0
    /\ sendAttempts = 0
    /\ sleeps = <<>>

\* SendEmail, lines 28-38: the call starts; ctx and the first backoff are set.
SendEmailCall(u, to) ==
    /\ mpc = "idle"
    /\ margs' = [userID |-> u, to |-> to]
    /\ attempt' = 1
    /\ backoff' = InitialBackoff
    /\ mpc' = "acquire"
    /\ UNCHANGED <<mctxDone, acqAttempts, sendAttempts, sleeps>>

\* SendEmail's context.WithTimeout(context.Background(), 30 s) expires.
MailDeadline ==
    /\ mpc \in {"acquire", "sleepA", "profile", "send", "sleepS"}
    /\ ~mctxDone
    /\ mctxDone' = TRUE
    /\ UNCHANGED <<mpc, margs, attempt, backoff, acqAttempts, sendAttempts, sleeps>>

\* GetGmailService: fails without a credential record, may fail otherwise.
GetGmailService(u) == IF u \in CredentialOwners THEN {TRUE, FALSE} ELSE {FALSE}

\* A remote Gmail call: fails once the context is done, may fail before.
GmailCall(done) == IF done THEN {FALSE} ELSE {TRUE, FALSE}

\* A SendEmail whose context is derived from the request's context.
DispatchContextDoneWithRequest == mctxDone \/ ctxExpired

\* SendEmail, lines 31-33: ctx is context.WithTimeout(context.Background(),
\* 30 s); it is done when that deadline has passed, and only then.
DispatchContextDone == mctxDone

\* A retry loop that goes on for a fourth attempt.
MayRetryOnceMore(a) == a < MaxAttempts + 1

\* "if attempt < 3": sleep and try again.
MayRetry(a) == a < MaxAttempts

\* SendEmail, lines 41-56: one GetGmailService attempt; on the last failure
\* "unable to retrieve Gmail service after retries" is returned.
AcquireAttempt ==
    /\ mpc = "acquire"
    /\ acqAttempts' = acqAttempts + 1
    /\ \E ok \in GetGmailService(margs.userID) :
          mpc' = IF ok THEN "profile" ELSE IF MayRetry(attempt) THEN "sleepA" ELSE "failed"
    /\ UNCHANGED <<margs, mctxDone, attempt, backoff, sendAttempts, sleeps>>

\* SendEmail, lines 48-51: time.Sleep(backoff); backoff *= 2; next attempt.
SleepAcquire ==
    /\ mpc = "sleepA"
    /\ sleeps' = Append(sleeps, [phase |-> "acquire", seconds |-> backoff])
    /\ backoff' = backoff * 2
    /\ attempt' = attempt + 1
    /\ mpc' = "acquire"
    /\ UNCHANGED <<margs, mctxDone, acqAttempts, sendAttempts>>

\* The submission loop starting with whatever backoff the first loop left.
SubmissionBackoffCarried(b) == b

\* SendEmail, line 90: backoff = 1 * time.Second.
SubmissionBackoff(b) == InitialBackoff

\* A SendEmail that submits the message even without the sender's address.
AfterProfileBestEffort(ok) == "send"

\* SendEmail, lines 61-64: "unable to get user profile" is returned when
\* GetProfile fails; otherwise the message is built and submitted.
AfterProfile(ok) == IF ok THEN "send" ELSE "failed"

\* SendEmail, lines 60-90: GetProfile("me") for the From header; the message
\* is built and encoded; the second loop starts.
Profile ==
    /\ mpc = "profile"
    /\ \E ok \in GmailCall(DispatchContextDone) :
          IF AfterProfile(ok) = "send"
          THEN /\ mpc' = "send"
               /\ attempt' = 1
               /\ backoff' = SubmissionBackoff(backoff)
          ELSE /\ mpc' = "failed"
               /\ UNCHANGED <<attempt, backoff>>
    /\ UNCHANGED <<margs, mctxDone, acqAttempts, sendAttempts, sleeps>>

\* SendEmail, lines 93-112: one Messages.Send attempt.
SendAttempt ==
    /\ mpc = "send"
    /\ sendAttempts' = sendAttempts + 1
    /\ \E ok \in GmailCall(DispatchContextDone) :
          mpc' = IF ok THEN "delivered" ELSE IF MayRetry(attempt) THEN "sleepS" ELSE "failed"
    /\ UNCHANGED <<margs, mctxDone, attempt, backoff, acqAttempts, sleeps>>

\* SendEmail, lines 101-104: time.Sleep(backoff); backoff *= 2; next attempt.
SleepSend ==
    /\ mpc = "sleepS"
    /\ sleeps' = Append(sleeps, [phase |-> "send", seconds |-> backoff])
    /\ backoff' = backoff * 2
    /\ attempt' = attempt + 1
    /\ mpc' = "send"
    /\ UNCHANGED <<margs, mctxDone, acqAttempts, sendAttempts>>

\* The goroutine of HandleWebhook lines 164-171 runs: it calls SendEmail with
\* the arguments the handler captured.
StartDispatch ==
    /\ dispatched # <<>>
    /\ SendEmailCall(dispatched[1].userID, dispatched[1].to)
(***************************************************************************)
(* The authorization flow (package auth): Handler.SaveCredentials up to    *)
(* GenerateState, Handler.GmailOAuthCallback, CredentialsManager.          *)
(***************************************************************************)
VARIABLES
    credentials, \* CredentialsManager.credentials: user -> [posted, refresh]
    cb,          \* per process: position and locals of GmailOAuthCallback
    lastCb,      \* history: what the last callback with a valid state did and answered
    cbRejected   \* history: what the callbacks with an invalid state did and answered

authVars == <<credentials, cb, lastCb, cbRejected>>

\* The refresh tokens config.Exchange can return: none, or a new one.
RefreshTokens == {"", "r1"}

\* posted: the bot token, client id and secret of the request that wrote the
\* record, as one value ("" in the zero record).
NoCreds == [posted |-> "", refresh |-> ""]
IdleCb == [pc |-> "idle", userID |-> "", creds |-> NoCreds, val |-> NoCall,
           read |-> FALSE, exchanged |-> FALSE, wrote |-> FALSE]

\* An initiation that mints a state without storing the posted record.
StorePostedNot(m, u, k) == m

\* Handler.SaveCredentials, lines 62-69: the record built from the request,
\* with no refresh token, is assigned to the user's entry.
StorePosted(m, u, k) == MapPut(m, u, [posted |-> k, refresh |-> ""])

\* Handler.SaveCredentials, lines 45-100: the posted record, with an empty
\* refresh token, is stored under the user's id; then the team is registered
\* and GenerateState is called. If storing or registering fails, or rand.Read
\* fails, the request is answered 500 and no state is issued; the map entry
\* was assigned before the file was written and stays.
Initiate(p, u, k) ==
    /\ cb[p].pc = "idle"
    /\ credentials' = StorePosted(credentials, u, k)
    /\ GenBegin(p, u)
    /\ UNCHANGED <<cb, lastCb, cbRejected>>

\* GmailOAuthCallback, lines 118-126: the request arrives with a state value
\* and ValidateState is called.
CbBegin(p, t) ==
    /\ cb[p].pc = "idle"
    /\ ValBegin(p, t)
    /\ cb' = [cb EXCEPT ![p].pc = "validate"]
    /\ UNCHANGED <<credentials, lastCb, cbRejected>>

\* How the presented state stood when ValidateState looked at it.
StateClass(v) ==
    IF v.valid THEN "valid"
    ELSE IF ~v.wasIssued THEN "unknown"
    ELSE IF v.consumedBefore THEN "consumed"
    ELSE "expired"

\* What a finished callback leaves for inspection.
Seen(c, r) ==
    [class |-> StateClass(c.val), userID |-> c.userID, valid |-> c.val.valid, resp |-> r,
     read |-> c.read, exchanged |-> c.exchanged, wrote |-> c.wrote]

\* http.Error / http.Redirect: status and text (or destination).
HttpReply(st, b) == [status |-> st, body |-> b]

\* NewCredentialsManager without a credentials file: an empty map.
InitAuth ==
    /\ credentials = [u \in {} |-> NoCreds]
    /\ cb = [p \in Procs |-> IdleCb]
    /\ lastCb = Seen(IdleCb, HttpReply(0, ""))
    /\ cbRejected = {}

\* The callback of p ends with reply r.
CbFinish(p, c, r) ==
    /\ IF c.val.valid
       THEN lastCb' = Seen(c, r) /\ UNCHANGED cbRejected
       ELSE cbRejected' = cbRejected \cup {Seen(c, r)} /\ UNCHANGED lastCb
    /\ cb' = [cb EXCEPT ![p] = IdleCb]

\* A callback that goes on whatever ValidateState returned.
StateAcceptedAlways(v) == TRUE

\* GmailOAuthCallback, line 127: if !valid.
StateAccepted(v) == v.valid

\* GmailOAuthCallback, lines 126-132: ValidateState returns; an invalid state
\* is answered 400 "Invalid state parameter".
CbValidated(p) ==
    /\ cb[p].pc = "validate"
    /\ ValCheck(p)
    /\ LET c == [cb[p] EXCEPT !.val = lastV', !.userID = lastV'.userID]
       IN IF StateAccepted(lastV')
          THEN /\ cb' = [cb EXCEPT ![p] = [c EXCEPT !.pc = "getcreds"]]
               /\ UNCHANGED <<lastCb, cbRejected>>
          ELSE CbFinish(p, c, HttpReply(400, "Invalid state parameter"))
    /\ UNCHANGED credentials

\* GmailOAuthCallback, lines 137-142, CredentialsManager.GetCredentials: the
\* user's record is read; without one the answer is 404 "User not found".
CbGetCredentials(p) ==
    /\ cb[p].pc = "getcreds"
    /\ LET c == [cb[p] EXCEPT !.read = TRUE]
       IN IF c.userID \in DOMAIN credentials
          THEN /\ cb' = [cb EXCEPT ![p] = [c EXCEPT !.pc = "exchange",
                                                    !.creds = credentials[c.userID]]]
               /\ UNCHANGED <<lastCb, cbRejected>>
          ELSE CbFinish(p, c, HttpReply(404, "User not found"))
    /\ UNCHANGED <<credentials, storeVars>>

\* A callback that saves the record whatever the exchange returned.
HasRefreshTokenAlways(r) == TRUE

\* GmailOAuthCallback, line 170: if token.RefreshToken != "".
HasRefreshToken(r) == r # ""

\* GmailOAuthCallback, lines 144-180: config.Exchange under its 10 s context
\* fails (500), or returns a token; with a refresh token the record read
\* before is completed and saved next, without one the caller is redirected.
CbExchange(p) ==
    /\ cb[p].pc = "exchange"
    /\ LET c == [cb[p] EXCEPT !.exchanged = TRUE]
       IN \/ CbFinish(p, c, HttpReply(500, "Failed to authenticate with Google. Please try again."))
          \/ \E r \in RefreshTokens :
                IF HasRefreshToken(r)
                THEN /\ cb' = [cb EXCEPT ![p] = [c EXCEPT !.pc = "save", !.creds.refresh = r]]
                     /\ UNCHANGED <<lastCb, cbRejected>>
                ELSE CbFinish(p, c, HttpReply(307, "SuccessURL"))
    /\ UNCHANGED <<credentials, storeVars>>

\* GmailOAuthCallback, lines 170-184, CredentialsManager.SaveCredentials: the
\* completed record replaces the user's entry; if writing the file fails the
\* answer is 500 "Error saving token", otherwise the caller is redirected to
\* the success URL.
CbSave(p) ==
    /\ cb[p].pc = "save"
    /\ credentials' = MapPut(credentials, cb[p].userID, cb[p].creds)
    /\ LET c == [cb[p] EXCEPT !.wrote = TRUE]
       IN \/ CbFinish(p, c, HttpReply(500, "Error saving token"))
          \/ CbFinish(p, c, HttpReply(307, "SuccessURL"))
    /\ UNCHANGED storeVars

(***************************************************************************)
(* CredentialsManager step by step: its lock, its map and its file, under  *)
(* the handlers that call it concurrently.                                 *)
(***************************************************************************)
VARIABLES
    cmu,         \* CredentialsManager.mu: [writer, readers]
    file,        \* the credentials file: [kind, data]
    cpc,         \* per handler: its position
    cjob,        \* per handler: [kind, userID, creds], what it is saving or has read
    lastSave,    \* history: user -> the record of the last completed map assignment
    persisted,   \* history: users for whom a SaveCredentials call returned nil
    registered,  \* users RegisterTeam has stored a team for
    urlReturned, \* history: users whose initiation was answered with auth_url
    calls        \* number of requests that reached the CredentialsManager's callers

credsVars == <<cmu, file, cpc, cjob, lastSave, persisted, registered, urlReturned, calls>>

\* The number of requests followed through the CredentialsManager.
MaxCalls == 3

\* The bot token, client id and secret a request posts, as one value.
PostedKeys == {"k1", "k2"}

NoFile == [kind |-> "none", data |-> [u \in {} |-> NoCreds]]
NoJob == [kind |-> "none", userID |-> "", creds |-> NoCreds]

\* The file holds the serialisation of map m, all of it.
Snapshot(m) == [kind |-> "snapshot", data |-> m]

\* os.WriteFile opened the file with O_TRUNC, or stopped part way through.
Truncated == [kind |-> "partial", data |-> [u \in {} |-> NoCreds]]

\* NewCredentialsManager without a credentials file, no handler running.
InitCreds ==
    /\ cmu = [writer |-> "", readers |-> {}]
    /\ file = NoFile
    /\ cpc = [p \in Procs |-> "idle"]
    /\ cjob = [p \in Procs |-> NoJob]
    /\ lastSave = [u \in Owners |-> NoCreds]
    /\ persisted = {}
    /\ registered = {}
    /\ urlReturned = {}
    /\ calls = 0

\* cm.mu.Lock() can return for p.
LockAvailable(p) == cmu.writer = "" /\ cmu.readers = {}

\* A read lock that does not wait for the writer.
RLockAvailableAlways(p) == TRUE

\* cm.mu.RLock() can return for p.
RLockAvailable(p) == cmu.writer = ""

\* Handler.SaveCredentials, lines 45-67: a request posts credentials k for
\* user u; the record is built with an empty refresh token.
InitBegin(p, u, k) ==
    /\ cpc[p] = "idle"
    /\ calls < MaxCalls
    /\ calls' = calls + 1
    /\ cjob' = [cjob EXCEPT ![p] = [kind |-> "init", userID |-> u,
                                    creds |-> [posted |-> k, refresh |-> ""]]]
    /\ cpc' = [cpc EXCEPT ![p] = "s_lock"]
    /\ UNCHANGED <<credentials, cmu, file, lastSave, persisted, registered, urlReturned, storeVars>>

\* CredentialsManager.SaveCredentials, line 248: cm.mu.Lock().
SaveLock(p) ==
    /\ UNCHANGED calls
    /\ cpc[p] = "s_lock"
    /\ LockAvailable(p)
    /\ cmu' = [cmu EXCEPT !.writer = p]
    /\ cpc' = [cpc EXCEPT ![p] = "s_assign"]
    /\ UNCHANGED <<credentials, file, cjob, lastSave, persisted, registered, urlReturned, storeVars>>

\* CredentialsManager.SaveCredentials, line 251: the struct is copied into the
\* map field by field; after the first part of the copy the entry holds one
\* field of the new record and the other as it was (empty for a new entry).
SaveAssign(p) ==
    /\ UNCHANGED calls
    /\ cpc[p] = "s_assign"
    /\ LET u == cjob[p].userID
           old == IF u \in DOMAIN credentials THEN credentials[u] ELSE NoCreds
       IN \E first \in {"posted", "refresh"} :
             credentials' = MapPut(credentials, u,
                IF first = "posted" THEN [old EXCEPT !.posted = cjob[p].creds.posted]
                                    ELSE [old EXCEPT !.refresh = cjob[p].creds.refresh])
    /\ cpc' = [cpc EXCEPT ![p] = "s_assigned"]
    /\ UNCHANGED <<cmu, file, cjob, lastSave, persisted, registered, urlReturned, storeVars>>

\* CredentialsManager.SaveCredentials, line 251: the copy is complete.
SaveAssigned(p) ==
    /\ UNCHANGED calls
    /\ cpc[p] = "s_assigned"
    /\ credentials' = MapPut(credentials, cjob[p].userID, cjob[p].creds)
    /\ lastSave' = [lastSave EXCEPT ![cjob[p].userID] = cjob[p].creds]
    /\ cpc' = [cpc EXCEPT ![p] = "s_open"]
    /\ UNCHANGED <<cmu, file, cjob, persisted, registered, urlReturned, storeVars>>

\* An initiation that goes on to register the team whatever the save returned.
AfterSaveIgnoringError(kind, ok) == IF kind = "init" THEN "register" ELSE "idle"

\* Handler.SaveCredentials, lines 69-78: after a failed save the request is
\* answered 500, after a successful one the team is registered next.
\* GmailOAuthCallback, lines 173-184: the callback ends either way.
AfterSave(kind, ok) == IF kind = "init" /\ ok THEN "register" ELSE "idle"

\* CredentialsManager.SaveCredentials returns to its caller: the deferred
\* Unlock (line 249), and the caller goes on or answers.
SaveReturn(p, ok) ==
    /\ cmu' = [cmu EXCEPT !.writer = ""]
    /\ persisted' = IF ok THEN persisted \cup {cjob[p].userID} ELSE persisted
    /\ cpc' = [cpc EXCEPT ![p] = AfterSave(cjob[p].kind, ok)]
    /\ cjob' = [cjob EXCEPT ![p] = IF AfterSave(cjob[p].kind, ok) = "idle" THEN NoJob ELSE @]

\* CredentialsManager.SaveCredentials, lines 254-259: the whole map is
\* serialised and os.WriteFile opens the file, truncating it; or the open
\* fails, the file is untouched and the error is returned.
SaveOpen(p) ==
    /\ UNCHANGED calls
    /\ cpc[p] = "s_open"
    /\ \/ /\ file' = Truncated
          /\ cpc' = [cpc EXCEPT ![p] = "s_write"]
          /\ UNCHANGED <<cmu, cjob, persisted>>
       \/ /\ SaveReturn(p, FALSE)
          /\ UNCHANGED file
    /\ UNCHANGED <<credentials, lastSave, registered, urlReturned, storeVars>>

\* CredentialsManager.SaveCredentials, lines 259-265: the serialised map is
\* written and nil returned, or the write fails, the file stays as the failed
\* write left it and the error is returned.
\* The map cannot change between its serialisation and this step: the
\* caller holds the write lock.
SaveWrite(p) ==
    /\ UNCHANGED calls
    /\ cpc[p] = "s_write"
    /\ \/ /\ file' = Snapshot(credentials)
          /\ SaveReturn(p, TRUE)
       \/ /\ UNCHANGED file
          /\ SaveReturn(p, FALSE)
    /\ UNCHANGED <<credentials, lastSave, registered, urlReturned, storeVars>>

\* Handler.SaveCredentials, lines 78-86: RegisterTeam stores the mapping, or
\* fails (500), or the request named no team and the step is skipped.
InitRegister(p) ==
    /\ UNCHANGED calls
    /\ cpc[p] = "register"
    /\ \/ /\ registered' = registered \cup {cjob[p].userID}
          /\ cpc' = [cpc EXCEPT ![p] = "mint"]
          /\ UNCHANGED cjob
       \/ /\ cpc' = [cpc EXCEPT ![p] = "mint"]
          /\ UNCHANGED <<registered, cjob>>
       \/ /\ cpc' = [cpc EXCEPT ![p] = "idle"]
          /\ cjob' = [cjob EXCEPT ![p] = NoJob]
          /\ UNCHANGED registered
    /\ UNCHANGED <<credentials, cmu, file, lastSave, persisted, urlReturned, storeVars>>

\* Handler.SaveCredentials, lines 97-110: GenerateState as a whole (the state
\* store's lock makes it one step), then the answer with auth_url; or
\* rand.Read fails and the answer is 500.
InitMint(p) ==
    /\ UNCHANGED calls
    /\ cpc[p] = "mint"
    /\ mu = "free"
    /\ \/ UNCHANGED <<states, drawn, issued, urlReturned>>
       \/ \E t \in Tokens \ drawn :
             /\ drawn' = drawn \cup {t}
             /\ states' = cleanupExpiredStates(
                              MapPut(states, t, [userID |-> cjob[p].userID,
                                                 expiry |-> now + TTL]), now)
             /\ issued' = [issued EXCEPT ![t] = [userID |-> cjob[p].userID, at |-> now]]
             /\ urlReturned' = urlReturned \cup {cjob[p].userID}
    /\ cpc' = [cpc EXCEPT ![p] = "idle"]
    /\ cjob' = [cjob EXCEPT ![p] = NoJob]
    /\ UNCHANGED <<credentials, cmu, file, lastSave, persisted, registered>>
    /\ UNCHANGED <<mu, now, ppc, parg, plocal, lastV, okCount>>

\* GmailOAuthCallback, lines 118-132: ValidateState as a whole (the state
\* store's lock makes it one step); an invalid state ends the callback (400),
\* a valid one names the user.
CallbackEnter(p, t) ==
    /\ cpc[p] = "idle"
    /\ mu = "free"
    /\ calls < MaxCalls
    /\ calls' = calls + 1
    /\ LET ex == t \in DOMAIN states
           r == ValidateOutcome(states, t,
                    [exists |-> ex, data |-> IF ex THEN states[t] ELSE NoData], now)
       IN /\ states' = r.states
          /\ lastV' = [state |-> t, userID |-> r.userID, valid |-> r.valid,
                       wasIssued |-> issued[t] # NotIssued,
                       late |-> issued[t] # NotIssued /\ now > issued[t].at + TTL,
                       consumedBefore |-> okCount[t] > 0, done |-> TRUE]
          /\ okCount' = [okCount EXCEPT ![t] = IF r.valid THEN @ + 1 ELSE @]
          /\ IF StateAccepted(r)
             THEN /\ cjob' = [cjob EXCEPT ![p] = [kind |-> "callback", userID |-> r.userID,
                                                  creds |-> NoCreds]]
                  /\ cpc' = [cpc EXCEPT ![p] = "g_rlock"]
             ELSE UNCHANGED <<cjob, cpc>>
    /\ UNCHANGED <<credentials, cmu, file, lastSave, persisted, registered, urlReturned>>
    /\ UNCHANGED <<mu, now, drawn, ppc, parg, plocal, issued>>

\* GetSlackToken / GetGmailService, lines 283 and 312: a handler asks for the
\* record of user u.
GetBegin(p, u) ==
    /\ cpc[p] = "idle"
    /\ calls < MaxCalls
    /\ calls' = calls + 1
    /\ cjob' = [cjob EXCEPT ![p] = [kind |-> "get", userID |-> u, creds |-> NoCreds]]
    /\ cpc' = [cpc EXCEPT ![p] = "g_rlock"]
    /\ UNCHANGED <<credentials, cmu, file, lastSave, persisted, registered, urlReturned, storeVars>>

\* CredentialsManager.GetCredentials, line 270: cm.mu.RLock().
GetRLock(p) ==
    /\ UNCHANGED calls
    /\ cpc[p] = "g_rlock"
    /\ RLockAvailable(p)
    /\ cmu' = [cmu EXCEPT !.readers = @ \cup {p}]
    /\ cpc' = [cpc EXCEPT ![p] = "g_read"]
    /\ UNCHANGED <<credentials, file, cjob, lastSave, persisted, registered, urlReturned, storeVars>>

\* CredentialsManager.GetCredentials, lines 273-278, and the deferred RUnlock:
\* the entry is copied out, or there is none. A callback goes on to the
\* exchange with the copy (handlers.go line 137) or answers 404.
GetRead(p) ==
    /\ UNCHANGED calls
    /\ cpc[p] = "g_read"
    /\ cmu' = [cmu EXCEPT !.readers = @ \ {p}]
    /\ LET u == cjob[p].userID
       IN IF cjob[p].kind = "callback" /\ u \in DOMAIN credentials
          THEN /\ cjob' = [cjob EXCEPT ![p].creds = credentials[u]]
               /\ cpc' = [cpc EXCEPT ![p] = "exchange"]
          ELSE /\ cjob' = [cjob EXCEPT ![p] = NoJob]
               /\ cpc' = [cpc EXCEPT ![p] = "idle"]
    /\ UNCHANGED <<credentials, file, lastSave, persisted, registered, urlReturned, storeVars>>

\* GmailOAuthCallback, lines 158-184: the exchange fails (500), or returns no
\* refresh token (redirect), or returns one: it is put into the copy read
\* before (line 172) and the copy is saved.
CallbackExchange(p) ==
    /\ UNCHANGED calls
    /\ cpc[p] = "exchange"
    /\ \/ /\ cpc' = [cpc EXCEPT ![p] = "idle"]
          /\ cjob' = [cjob EXCEPT ![p] = NoJob]
       \/ \E r \in RefreshTokens :
             IF HasRefreshToken(r)
             THEN /\ cjob' = [cjob EXCEPT ![p].creds.refresh = r]
                  /\ cpc' = [cpc EXCEPT ![p] = "s_lock"]
             ELSE /\ cpc' = [cpc EXCEPT ![p] = "idle"]
                  /\ cjob' = [cjob EXCEPT ![p] = NoJob]
    /\ UNCHANGED <<credentials, cmu, file, lastSave, persisted, registered, urlReturned, storeVars>>

vars == <<storeVars, hookVars, mailVars, authVars, credsVars>>

\* The server has started: empty state store, no request, no SendEmail call.
Init == InitStore /\ InitHook /\ InitMail /\ InitAuth /\ InitCreds

(***************************************************************************)
(* SpecStore: the state store under concurrent callers.                    *)
(***************************************************************************)
NextStore ==
    \/ \E p \in Procs, u \in Owners : GenBegin(p, u) /\ UNCHANGED <<hookVars, mailVars, authVars, credsVars>>
    \/ \E p \in Procs : GenLock(p) /\ UNCHANGED <<hookVars, mailVars, authVars, credsVars>>
    \/ \E p \in Procs : GenInsert(p) /\ UNCHANGED <<hookVars, mailVars, authVars, credsVars>>
    \/ \E p \in Procs : GenCleanup(p) /\ UNCHANGED <<hookVars, mailVars, authVars, credsVars>>
    \/ \E p \in Procs, t \in Tokens : ValBegin(p, t) /\ UNCHANGED <<hookVars, mailVars, authVars, credsVars>>
    \/ \E p \in Procs : ValLock(p) /\ UNCHANGED <<hookVars, mailVars, authVars, credsVars>>
    \/ \E p \in Procs : ValRead(p) /\ UNCHANGED <<hookVars, mailVars, authVars, credsVars>>
    \/ \E p \in Procs : ValCheck(p) /\ UNCHANGED <<hookVars, mailVars, authVars, credsVars>>
    \/ Tick /\ UNCHANGED <<hookVars, mailVars, authVars, credsVars>>

SpecStore == Init /\ [][NextStore]_vars

(***************************************************************************)
(* Spec: one webhook request from arrival to the launch of SendEmail, with *)
(* every interleaving of the member goroutines.                            *)
(***************************************************************************)
Next ==
    \/ \E b \in Bodies : Receive(b) /\ UNCHANGED <<storeVars, mailVars, authVars, credsVars>>
    \/ DeadlineExpires /\ UNCHANGED <<storeVars, mailVars, authVars, credsVars>>
    \/ SenderLookup /\ UNCHANGED <<storeVars, mailVars, authVars, credsVars>>
    \/ ListMembers(0..MaxMembers) /\ UNCHANGED <<storeVars, mailVars, authVars, credsVars>>
    \/ \E i \in 1..MaxMembers : Acquire(i) /\ UNCHANGED <<storeVars, mailVars, authVars, credsVars>>
    \/ \E i \in 1..MaxMembers : Lookup(i, AllOutcomes) /\ UNCHANGED <<storeVars, mailVars, authVars, credsVars>>
    \/ \E i \in 1..MaxMembers : Release(i) /\ UNCHANGED <<storeVars, mailVars, authVars, credsVars>>
    \/ CloseResults /\ UNCHANGED <<storeVars, mailVars, authVars, credsVars>>
    \/ Collect /\ UNCHANGED <<storeVars, mailVars, authVars, credsVars>>
    \/ ReturnEmails /\ UNCHANGED <<storeVars, mailVars, authVars, credsVars>>
    \/ Respond /\ UNCHANGED <<storeVars, mailVars, authVars, credsVars>>
    \/ Launch /\ UNCHANGED <<storeVars, mailVars, authVars, credsVars>>
    \/ RequestEnds /\ UNCHANGED <<storeVars, mailVars, authVars, credsVars>>

Spec == Init /\ [][Next]_vars

(***************************************************************************)
(* SpecGate: one GetChannelMembers call on a channel with more members     *)
(* than the semaphore admits, with every interleaving of the goroutines.   *)
(* Every member has the same address.                                      *)
(***************************************************************************)
\* The largest channel of SpecGate.
MaxGateMembers == 6
GateLens == (SemaphoreCap + 1)..MaxGateMembers
\* In SpecGate a lookup succeeds while the context is live and fails after.
GateOutcomes == IF ctxExpired THEN {ErrOutcome} ELSE {OkOutcome("b@x.com")}

\* HandleWebhook has classified a message of team T1 and looked up its sender.
InitAtList ==
    /\ InitStore
    /\ InitMail
    /\ InitAuth
    /\ InitCreds
    /\ hpc = "list"
    /\ req = [NoBody EXCEPT !.json = "object", !.type = "event_callback", !.team = "T1",
                            !.etype = "message", !.user = 1]
    /\ owner = "owner1"
    /\ mapConsulted = TRUE
    /\ ctxExpired = FALSE
    /\ senderRes = OkOutcome("a@x.com")
    /\ listed = <<>>
    /\ listCalls = 0
    /\ userIDs = <<>>
    /\ gpc = <<>>
    /\ gres = <<>>
    /\ semaphore = 0
    /\ wg = 0
    /\ resultChan = <<>>
    /\ chanClosed = FALSE
    /\ emails = <<>>
    /\ ret = "none"
    /\ recipients = <<>>
    /\ resp = NoResp
    /\ dispatched = <<>>
    /\ crashed = FALSE

NextGate ==
    \/ DeadlineExpires /\ UNCHANGED <<storeVars, mailVars, authVars, credsVars>>
    \/ ListMembers(GateLens) /\ UNCHANGED <<storeVars, mailVars, authVars, credsVars>>
    \/ \E i \in 1..MaxGateMembers : Acquire(i) /\ UNCHANGED <<storeVars, mailVars, authVars, credsVars>>
    \/ \E i \in 1..MaxGateMembers : Lookup(i, GateOutcomes) /\ UNCHANGED <<storeVars, mailVars, authVars, credsVars>>
    \/ \E i \in 1..MaxGateMembers : Release(i) /\ UNCHANGED <<storeVars, mailVars, authVars, credsVars>>
    \/ CloseResults /\ UNCHANGED <<storeVars, mailVars, authVars, credsVars>>
    \/ Collect /\ UNCHANGED <<storeVars, mailVars, authVars, credsVars>>
    \/ ReturnEmails /\ UNCHANGED <<storeVars, mailVars, authVars, credsVars>>

SpecGate == InitAtList /\ [][NextGate]_vars

\* A step of a member goroutine, of the closing goroutine or of the
\* collecting loop.
GateSteps ==
    \/ \E i \in 1..MaxGateMembers : Acquire(i) /\ UNCHANGED <<storeVars, mailVars, authVars, credsVars>>
    \/ \E i \in 1..MaxGateMembers : Lookup(i, GateOutcomes) /\ UNCHANGED <<storeVars, mailVars, authVars, credsVars>>
    \/ \E i \in 1..MaxGateMembers : Release(i) /\ UNCHANGED <<storeVars, mailVars, authVars, credsVars>>
    \/ CloseResults /\ UNCHANGED <<storeVars, mailVars, authVars, credsVars>>
    \/ Collect /\ UNCHANGED <<storeVars, mailVars, authVars, credsVars>>
    \/ ReturnEmails /\ UNCHANGED <<storeVars, mailVars, authVars, credsVars>>

\* The Go scheduler runs a goroutine that can take a step, and a lookup that
\* was started returns (with a result, or with an error at its 3 s deadline or
\* the request's deadline at the latest): the program does not stop while one
\* of these steps is possible. Nothing is assumed about which goroutine runs.
FairGate == WF_vars(GateSteps)

SpecGateLive == SpecGate /\ FairGate

(***************************************************************************)
(* SpecCap: one GetChannelMembers call on channels around the 50 member    *)
(* cap. The goroutines are scheduled in index order at each of their       *)
(* steps, every lookup succeeds and the context stays live.                *)
(***************************************************************************)
\* The longest member listing of SpecCap.
MaxListed == 52
CapLens == (maxUsers - 1)..MaxListed
CapOutcomes == {OkOutcome("b@x.com")}

\* i is the first goroutine at position pcv.
Turn(i, pcv) ==
    /\ i \in DOMAIN gpc /\ gpc[i] = pcv
    /\ \A j \in 1..(i - 1) : gpc[j] # pcv

NextCap ==
    \/ ListMembers(CapLens) /\ UNCHANGED <<storeVars, mailVars, authVars, credsVars>>
    \/ \E i \in 1..MaxListed : Turn(i, "acquire") /\ Acquire(i) /\ UNCHANGED <<storeVars, mailVars, authVars, credsVars>>
    \/ \E i \in 1..MaxListed : Turn(i, "lookup") /\ Lookup(i, CapOutcomes) /\ UNCHANGED <<storeVars, mailVars, authVars, credsVars>>
    \/ \E i \in 1..MaxListed : Turn(i, "release") /\ Release(i) /\ UNCHANGED <<storeVars, mailVars, authVars, credsVars>>
    \/ CloseResults /\ UNCHANGED <<storeVars, mailVars, authVars, credsVars>>
    \/ Collect /\ UNCHANGED <<storeVars, mailVars, authVars, credsVars>>
    \/ ReturnEmails /\ UNCHANGED <<storeVars, mailVars, authVars, credsVars>>

SpecCap == InitAtList /\ [][NextCap]_vars

(***************************************************************************)
(* SpecDispatch: a message of a small channel from the member listing to   *)
(* the end of the SendEmail call it launches, while the request ends.      *)
(***************************************************************************)
\* The largest channel of SpecDispatch.
MaxDispatchMembers == 2
DispatchLens == 1..MaxDispatchMembers
DispatchOutcomes == {ErrOutcome, OkOutcome("a@x.com"), OkOutcome("b@x.com")}

NextDispatch ==
    \/ DeadlineExpires /\ UNCHANGED <<storeVars, mailVars, authVars, credsVars>>
    \/ ListMembers(DispatchLens) /\ UNCHANGED <<storeVars, mailVars, authVars, credsVars>>
    \/ \E i \in 1..MaxDispatchMembers : Acquire(i) /\ UNCHANGED <<storeVars, mailVars, authVars, credsVars>>
    \/ \E i \in 1..MaxDispatchMembers :
          Lookup(i, DispatchOutcomes) /\ UNCHANGED <<storeVars, mailVars, authVars, credsVars>>
    \/ \E i \in 1..MaxDispatchMembers : Release(i) /\ UNCHANGED <<storeVars, mailVars, authVars, credsVars>>
    \/ CloseResults /\ UNCHANGED <<storeVars, mailVars, authVars, credsVars>>
    \/ Collect /\ UNCHANGED <<storeVars, mailVars, authVars, credsVars>>
    \/ ReturnEmails /\ UNCHANGED <<storeVars, mailVars, authVars, credsVars>>
    \/ Respond /\ UNCHANGED <<storeVars, mailVars, authVars, credsVars>>
    \/ Launch /\ UNCHANGED <<storeVars, mailVars, authVars, credsVars>>
    \/ RequestEnds /\ UNCHANGED <<storeVars, mailVars, authVars, credsVars>>
    \/ StartDispatch /\ UNCHANGED <<storeVars, hookVars, authVars, credsVars>>
    \/ MailDeadline /\ UNCHANGED <<storeVars, hookVars, authVars, credsVars>>
    \/ AcquireAttempt /\ UNCHANGED <<storeVars, hookVars, authVars, credsVars>>
    \/ SleepAcquire /\ UNCHANGED <<storeVars, hookVars, authVars, credsVars>>
    \/ Profile /\ UNCHANGED <<storeVars, hookVars, authVars, credsVars>>
    \/ SendAttempt /\ UNCHANGED <<storeVars, hookVars, authVars, credsVars>>
    \/ SleepSend /\ UNCHANGED <<storeVars, hookVars, authVars, credsVars>>

SpecDispatch == InitAtList /\ [][NextDispatch]_vars

(***************************************************************************)
(* SpecAuth: initiations and callbacks of concurrent requests on the state *)
(* store and the credential store.                                         *)
(***************************************************************************)
\* The users that start the authorization flow in SpecAuth.
AuthOwners == {"owner1"}
AuthPosted == {"k1"}

NextAuth ==
    \/ \E p \in Procs, u \in AuthOwners, k \in AuthPosted :
          Initiate(p, u, k) /\ UNCHANGED <<hookVars, mailVars, credsVars>>
    \/ \E p \in Procs : GenLock(p) /\ UNCHANGED <<hookVars, mailVars, authVars, credsVars>>
    \/ \E p \in Procs : GenInsert(p) /\ UNCHANGED <<hookVars, mailVars, authVars, credsVars>>
    \/ \E p \in Procs : GenCleanup(p) /\ UNCHANGED <<hookVars, mailVars, authVars, credsVars>>
    \/ \E p \in Procs, t \in Tokens : CbBegin(p, t) /\ UNCHANGED <<hookVars, mailVars, credsVars>>
    \/ \E p \in Procs : ValLock(p) /\ UNCHANGED <<hookVars, mailVars, authVars, credsVars>>
    \/ \E p \in Procs : ValRead(p) /\ UNCHANGED <<hookVars, mailVars, authVars, credsVars>>
    \/ \E p \in Procs : CbValidated(p) /\ UNCHANGED <<hookVars, mailVars, credsVars>>
    \/ \E p \in Procs : CbGetCredentials(p) /\ UNCHANGED <<hookVars, mailVars, credsVars>>
    \/ \E p \in Procs : CbExchange(p) /\ UNCHANGED <<hookVars, mailVars, credsVars>>
    \/ \E p \in Procs : CbSave(p) /\ UNCHANGED <<hookVars, mailVars, credsVars>>
    \/ Tick /\ UNCHANGED <<hookVars, mailVars, authVars, credsVars>>

SpecAuth == Init /\ [][NextAuth]_vars

(***************************************************************************)
(* SpecCreds: initiations, callbacks and readers on the CredentialsManager.*)
(***************************************************************************)
NextCreds ==
    \/ \E p \in Procs, u \in Owners, k \in PostedKeys :
          InitBegin(p, u, k) /\ UNCHANGED <<hookVars, mailVars, cb, lastCb, cbRejected>>
    \/ \E p \in Procs : SaveLock(p) /\ UNCHANGED <<hookVars, mailVars, cb, lastCb, cbRejected>>
    \/ \E p \in Procs : SaveAssign(p) /\ UNCHANGED <<hookVars, mailVars, cb, lastCb, cbRejected>>
    \/ \E p \in Procs : SaveAssigned(p) /\ UNCHANGED <<hookVars, mailVars, cb, lastCb, cbRejected>>
    \/ \E p \in Procs : SaveOpen(p) /\ UNCHANGED <<hookVars, mailVars, cb, lastCb, cbRejected>>
    \/ \E p \in Procs : SaveWrite(p) /\ UNCHANGED <<hookVars, mailVars, cb, lastCb, cbRejected>>
    \/ \E p \in Procs : InitRegister(p) /\ UNCHANGED <<hookVars, mailVars, cb, lastCb, cbRejected>>
    \/ \E p \in Procs : InitMint(p) /\ UNCHANGED <<hookVars, mailVars, cb, lastCb, cbRejected>>
    \/ \E p \in Procs, t \in Tokens :
          CallbackEnter(p, t) /\ UNCHANGED <<hookVars, mailVars, cb, lastCb, cbRejected>>
    \/ \E p \in Procs, u \in Owners :
          GetBegin(p, u) /\ UNCHANGED <<hookVars, mailVars, cb, lastCb, cbRejected>>
    \/ \E p \in Procs : GetRLock(p) /\ UNCHANGED <<hookVars, mailVars, cb, lastCb, cbRejected>>
    \/ \E p \in Procs : GetRead(p) /\ UNCHANGED <<hookVars, mailVars, cb, lastCb, cbRejected>>
    \/ \E p \in Procs : CallbackExchange(p) /\ UNCHANGED <<hookVars, mailVars, cb, lastCb, cbRejected>>

SpecCreds == Init /\ [][NextCreds]_vars

(***************************************************************************)
(* SpecMail: one SendEmail call.                                           *)
(***************************************************************************)
NextMail ==
    \/ \E u \in Owners, to \in MailRecipients :
          SendEmailCall(u, to) /\ UNCHANGED <<storeVars, hookVars, authVars, credsVars>>
    \/ MailDeadline /\ UNCHANGED <<storeVars, hookVars, authVars, credsVars>>
    \/ AcquireAttempt /\ UNCHANGED <<storeVars, hookVars, authVars, credsVars>>
    \/ SleepAcquire /\ UNCHANGED <<storeVars, hookVars, authVars, credsVars>>
    \/ Profile /\ UNCHANGED <<storeVars, hookVars, authVars, credsVars>>
    \/ SendAttempt /\ UNCHANGED <<storeVars, hookVars, authVars, credsVars>>
    \/ SleepSend /\ UNCHANGED <<storeVars, hookVars, authVars, credsVars>>

SpecMail == Init /\ [][NextMail]_vars

\* A step of the goroutine running SendEmail.
MailSteps ==
    \/ AcquireAttempt /\ UNCHANGED <<storeVars, hookVars, authVars, credsVars>>
    \/ SleepAcquire /\ UNCHANGED <<storeVars, hookVars, authVars, credsVars>>
    \/ Profile /\ UNCHANGED <<storeVars, hookVars, authVars, credsVars>>
    \/ SendAttempt /\ UNCHANGED <<storeVars, hookVars, authVars, credsVars>>
    \/ SleepSend /\ UNCHANGED <<storeVars, hookVars, authVars, credsVars>>

\* The goroutine is scheduled, time.Sleep ends, and a Gmail call made with
\* ctx returns, at the 30 s deadline at the latest.
FairMail == WF_vars(MailSteps)

SpecMailLive == SpecMail /\ FairMail

(***************************************************************************)
(* Claims about the state store, checked under SpecStore.                  *)
(***************************************************************************)

\* C1: a token validates successfully at most once, under every interleaving
\* of ValidateState calls: no token has two valid results, and a validation of
\* a token that was already consumed returns invalid.
C1_AtMostOneValidation ==
    /\ \A t \in Tokens : okCount[t] <= 1
    /\ (lastV.done /\ lastV.consumedBefore) => (~lastV.valid /\ lastV.userID = "")

\* A second validation of a consumed token has returned, and was rejected.
C1_Witness ==
    /\ lastV.done /\ lastV.consumedBefore /\ ~lastV.valid
    /\ okCount[lastV.state] = 1

\* C2: an issued, never consumed token presented later than its issue time
\* plus TTL is rejected and is no longer in the store; presented at or before
\* that time it is accepted and yields the user it was issued for.
C2_ExpiryDecidesValidation ==
    (lastV.done /\ lastV.wasIssued /\ ~lastV.consumedBefore) =>
        /\ lastV.late => (~lastV.valid /\ lastV.state \notin DOMAIN states)
        /\ ~lastV.late => (lastV.valid /\ lastV.userID = issued[lastV.state].userID)

\* A never consumed token was presented after its TTL and rejected.
C2_Witness ==
    /\ lastV.done /\ lastV.wasIssued /\ ~lastV.consumedBefore
    /\ lastV.late /\ ~lastV.valid
    /\ okCount[lastV.state] = 0

(***************************************************************************)
(* Claims about recipient resolution, the webhook and SendEmail.           *)
(***************************************************************************)
Range(f) == {f[k] : k \in DOMAIN f}
Occurrences(f, x) == Cardinality({k \in DOMAIN f : f[k] = x})

\* C3 (SpecGate): at every instant at most 5 member goroutines are inside
\* getUserEmail, and no more than 5 hold the semaphore.
C3_AtMostFiveInFlight ==
    /\ InFlight <= SemaphoreCap
    /\ Cardinality({i \in DOMAIN gpc : gpc[i] \in {"lookup", "release"}}) <= SemaphoreCap

\* Five lookups are in flight while another goroutine waits for the semaphore.
C3_Witness ==
    /\ InFlight = SemaphoreCap
    /\ \E i \in DOMAIN gpc : gpc[i] = "acquire"

\* C4 (Spec): when the sender's lookup returned a non-empty address, no
\* recipient list handed to SendEmail contains it.
C4_SenderNeverRecipient ==
    (senderRes.kind = "ok" /\ senderRes.email # "") =>
        /\ senderRes.email \notin Range(recipients)
        /\ \A k \in DOMAIN dispatched : senderRes.email \notin Range(dispatched[k].to)

\* A member resolved to the sender's own address, and SendEmail was launched
\* for the others.
C4_Witness ==
    /\ senderRes.kind = "ok" /\ senderRes.email # ""
    /\ senderRes.email \in Range(emails)
    /\ dispatched # <<>>

\* The request was a parseable event_callback.
IsEventCallback == req.json = "object" /\ req.type = "event_callback"

\* Neither resolution nor dispatch was started for the request.
NothingStarted ==
    /\ senderRes = NoOutcome
    /\ listCalls = 0
    /\ LookupStarted = {}
    /\ dispatched = <<>>

\* C5 (Spec), as claimed: an event_callback whose event has a bot_id or the
\* subtype message_changed or bot_message starts no listing, no lookup and no
\* SendEmail, and is answered with success.
C5_BotOrEditIsSuccessNoAction ==
    (hpc = "done" /\ IsEventCallback
     /\ (req.bot # "" \/ req.subtype \in {"message_changed", "bot_message"})) =>
        (NothingStarted /\ resp.status = 200)

\* C6 (Spec): an event_callback with a non-empty team id that has no mapping
\* is answered 404, and neither resolution nor dispatch is started.
C6_UnmappedTeamNotFound ==
    (hpc # "idle" /\ IsEventCallback /\ req.team # "" /\ req.team \notin DOMAIN TeamMapping) =>
        (hpc = "done" /\ resp.status = 404 /\ NothingStarted)

\* An ordinary message of an unmapped team was answered.
C6_Witness ==
    /\ hpc = "done" /\ IsEventCallback /\ req.team = "T9"
    /\ req.etype = "message" /\ req.bot = "" /\ req.subtype = ""
    /\ mapConsulted

C8_FirstFiftyOnly ==
    Len(listed) > maxUsers =>
        /\ ret # "err"
        /\ Len(userIDs) = maxUsers
        /\ \A i \in DOMAIN userIDs : userIDs[i] = listed[i]
        /\ {userIDs[i] : i \in LookupStarted} \subseteq {listed[i] : i \in 1..maxUsers}
        /\ ret = "ok" => {userIDs[i] : i \in LookupStarted} = {listed[i] : i \in 1..maxUsers}

\* A listing of more than 51 ids was resolved: 50 lookups, and the call returned.
C8_Witness ==
    /\ Len(listed) > maxUsers + 1
    /\ ret = "ok"
    /\ Cardinality(LookupStarted) = maxUsers

PhaseSleeps(ph) == SelectSeq(sleeps, LAMBDA x : x.phase = ph)
BackoffDelays == <<InitialBackoff, 2 * InitialBackoff>>
FollowsBackoff(sl, attempts) ==
    /\ Len(sl) <= Len(BackoffDelays)
    /\ \A k \in DOMAIN sl : sl[k].seconds = BackoffDelays[k]
    /\ Len(sl) <= attempts /\ (attempts > 0 => Len(sl) >= attempts - 1)

\* C9 (SpecMail): GetGmailService is attempted at most 3 times and
\* Messages.Send at most 3 times; in each sequence the sleep before attempt 2
\* is 1 s and before attempt 3 is 2 s, whatever the other sequence used.
C9_RetryBudgets ==
    /\ acqAttempts <= MaxAttempts
    /\ sendAttempts <= MaxAttempts
    /\ FollowsBackoff(PhaseSleeps("acquire"), acqAttempts)
    /\ FollowsBackoff(PhaseSleeps("send"), sendAttempts)

\* Both sequences used all three attempts.
C9_Witness ==
    /\ mpc \in {"delivered", "failed"}
    /\ acqAttempts = MaxAttempts /\ sendAttempts = MaxAttempts
    /\ sleeps = <<[phase |-> "acquire", seconds |-> 1], [phase |-> "acquire", seconds |-> 2],
                  [phase |-> "send", seconds |-> 1], [phase |-> "send", seconds |-> 2]>>

\* C10 (Spec): getUserEmails never returns an error on account of member
\* lookups; what it returns holds each non-empty address once per member that
\* resolved to it, and nothing for a member that failed or has no address.
C10_FailuresAndEmptiesLeftOut ==
    /\ ret = "err" => (gpc = <<>> /\ listed = <<>>)
    /\ ret = "ok" =>
          /\ "" \notin Range(emails)
          /\ \A e \in Emails :
                Occurrences(emails, e) = Cardinality({i \in DOMAIN gres : gres[i] = OkOutcome(e)})

\* One member failed, one has no address, one resolved, and the call returned
\* the one address.
C10_Witness ==
    /\ ret = "ok"
    /\ \E i, j, k \in DOMAIN gres :
          /\ gres[i] = ErrOutcome
          /\ gres[j] = OkOutcome("")
          /\ gres[k] = OkOutcome("b@x.com")
    /\ emails = <<"b@x.com">>

\* C11 (Spec), as claimed: no recipient list handed to SendEmail holds an
\* address more than once.
C11_NoDuplicateRecipients ==
    \A k \in DOMAIN dispatched :
        \A e \in Range(dispatched[k].to) : Occurrences(dispatched[k].to, e) = 1

\* C12 (SpecGateLive): when every started lookup returns, a getUserEmails call
\* that is waiting for its goroutines, also one whose request deadline has
\* passed, comes back with (emails, nil), and by then every goroutine was
\* admitted by the semaphore, has delivered its result and the collecting
\* loop has taken all of them.
C12_ResolutionReturns ==
    (hpc = "collect") ~>
        (/\ ret = "ok"
         /\ \A i \in DOMAIN gpc : gpc[i] = "done" /\ gres[i] # NoOutcome
         /\ resultChan = <<>> /\ chanClosed)

\* More members than the semaphore admits; the deadline passed while lookups
\* were outstanding, those were abandoned, and the call returned.
C12_Witness ==
    /\ Len(gpc) > SemaphoreCap
    /\ ctxExpired
    /\ \E i, j \in DOMAIN gres : gres[i] = ErrOutcome /\ gres[j] = OkOutcome("b@x.com")
    /\ ret = "ok"

\* The request is a message the handler processes: mapped team, no bot marker,
\* no edit subtype.
IsGenuineMessage ==
    /\ IsEventCallback /\ req.etype = "message"
    /\ ~IsIgnoredMessage(UnmarshalEvent(req))
    /\ owner # ""

Accepted == Reply(200, "Message received and processing")

\* C13 (Spec), as claimed: for a genuine message the success response is
\* written before the sender lookup, the member listing or any member lookup:
\* whenever one of these has been started or the handler is about to start
\* one, the response is already there and it is the success response.
C13_RespondsBeforeResolution ==
    (hpc # "idle" /\ IsGenuineMessage) => resp.status = 200

\* C14 (SpecDispatch): SendEmail is launched and runs only after the accepting
\* response was written, the response is that one whatever SendEmail does, and
\* a SendEmail whose own deadline has not passed can still reach Gmail, also
\* after the request's context has ended.
C14_DispatchDetached ==
    /\ (dispatched # <<>> \/ mpc # "idle") => (dispatched # <<>> /\ resp = Accepted)
    /\ (mpc = "profile" /\ ~mctxDone) => ENABLED (Profile /\ mpc' = "send")
    /\ (mpc = "send" /\ ~mctxDone) => ENABLED (SendAttempt /\ mpc' = "delivered")

\* The request's context ended before the submission, which was still sent.
C14_Witness ==
    /\ ctxExpired /\ hpc = "done"
    /\ sendAttempts = 0 /\ mpc = "send"
    /\ resp = Accepted

\* The body is neither a challenge nor an event envelope json.Unmarshal accepts.
IsUnparseable ==
    /\ ~(~UnmarshalChallenge(req).err /\ UnmarshalChallenge(req).Type = "url_verification")
    /\ UnmarshalEvent(req).err

C16_FiltersBeforeTeamChecks ==
    LET ev == UnmarshalEvent(req)
    IN  (hpc = "done" /\ IsEventCallback) =>
            /\ (ev.EType # "message" \/ IsIgnoredMessage(ev)) =>
                   (resp.status = 200 /\ NothingStarted)
            /\ resp.status \in {400, 404} => (ev.EType = "message" /\ ~IsIgnoredMessage(ev))

\* C17 (Spec): an event_callback with an empty team id is answered 400, the
\* team mapping is not consulted and no resolution or dispatch is started.
C17_EmptyTeamBadRequest ==
    (hpc # "idle" /\ IsEventCallback /\ req.team = "") =>
        (hpc = "done" /\ resp.status = 400 /\ ~mapConsulted /\ NothingStarted)

\* An ordinary message without team id was answered.
C17_Witness ==
    /\ hpc = "done" /\ IsEventCallback /\ req.team = ""
    /\ req.etype = "message" /\ req.bot = "" /\ req.subtype = ""
    /\ resp = Reply(400, "No team ID in event")

\* Every address getUserEmails returned is the sender's or empty.
AllExcluded == \A e \in Range(emails) : e = senderRes.email \/ e = ""

\* C18 (Spec): when no address is left after removing the sender's and the
\* empty ones, the answer is 200 "No recipients to send email to" and
\* SendEmail is not launched.
C18_NoRecipientsIsSuccess ==
    (ret = "ok" /\ hpc \in {"launch", "done"} /\ AllExcluded) =>
        /\ hpc = "done"
        /\ resp = Reply(200, "No recipients to send email to")
        /\ dispatched = <<>>

\* The only address resolved was the sender's own.
C18_Witness ==
    /\ ret = "ok" /\ hpc = "done"
    /\ emails # <<>> /\ AllExcluded
    /\ resp.body = "No recipients to send email to"

InvalidStateReply == HttpReply(400, "Invalid state parameter")

\* C19 (SpecAuth): a ValidateState call that does not validate returns ("",
\* false), and any two callbacks whose state did not validate - never issued,
\* already consumed or expired - got the same return values and the same
\* reply, 400 "Invalid state parameter".
C19_RejectionsIndistinguishable ==
    /\ (lastV.done /\ ~lastV.valid) => lastV.userID = ""
    /\ \A x, y \in cbRejected :
          /\ x.userID = y.userID /\ x.valid = y.valid /\ x.resp = y.resp
          /\ x.userID = "" /\ ~x.valid /\ x.resp = InvalidStateReply

\* Callbacks with a state never issued, one already consumed and one expired
\* have all been answered.
C19_Witness ==
    {x.class : x \in cbRejected} = {"unknown", "consumed", "expired"}

\* C20 (SpecAuth): a callback whose state does not validate is answered with
\* a 4xx status and does nothing else: no credential record is read or
\* written, no code is exchanged, no redirect is sent; only a callback whose
\* state validated gets past the validation.
C20_InvalidStateFailsClosed ==
    /\ \A x \in cbRejected :
          /\ x.resp.status \in 400..499
          /\ ~x.read /\ ~x.exchanged /\ ~x.wrote
    /\ \A p \in Procs : cb[p].pc \in {"getcreds", "exchange", "save"} => cb[p].val.valid

\* A callback stored a refresh token and was redirected; the same state was
\* presented again and rejected, and the record is as the first one left it.
C20_Witness ==
    /\ \E x \in cbRejected : x.class = "consumed"
    /\ lastCb.resp.status = 307 /\ lastCb.wrote
    /\ "owner1" \in DOMAIN credentials /\ credentials["owner1"].refresh = "r1"

\* The non-empty addresses the member lookups returned.
ResolvedAddresses == {gres[i].email : i \in {j \in DOMAIN gres : gres[j].kind = "ok"}} \ {""}

\* C25 (Spec): once the handler has built the recipient list, the set of
\* recipients is the set of non-empty addresses of the listed members whose
\* lookup succeeded, less the address the sender's lookup returned; and what
\* is handed to SendEmail is that list.
C25_RecipientSet ==
    (ret = "ok" /\ hpc \in {"launch", "done"}) =>
        /\ DOMAIN gres = DOMAIN listed
        /\ Range(recipients) = ResolvedAddresses \ {senderRes.email}
        /\ \A k \in DOMAIN dispatched : dispatched[k].to = recipients

\* Members U1, U2, U3 with addresses a, b and none, sender U1: SendEmail is
\* launched for b alone.
C25_Witness ==
    /\ listed = <<1, 2, 3>> /\ req.user = 1
    /\ senderRes = OkOutcome("a@x.com")
    /\ gres = <<OkOutcome("a@x.com"), OkOutcome("b@x.com"), OkOutcome("")>>
    /\ dispatched = <<[userID |-> "owner1", to |-> <<"b@x.com">>]>>

\* C26 (Spec): whatever the order in which the goroutines ran and delivered,
\* the set of addresses getUserEmails returns is the set of non-empty
\* addresses its lookups returned.
C26_SetIndependentOfOrder ==
    ret = "ok" => Range(emails) = ResolvedAddresses

\* The second member's result was collected before the first member's.
C26_Witness ==
    /\ ret = "ok"
    /\ gres = <<OkOutcome("a@x.com"), OkOutcome("b@x.com")>>
    /\ emails = <<"b@x.com", "a@x.com">>

\* C27 (Spec): a failed sender lookup does not end the handling: the member
\* listing is called, and when it succeeds the response is 200 and every
\* address getUserEmails returned is a recipient, none is removed.
C27_SenderFailureTolerated ==
    senderRes.kind = "err" =>
        /\ hpc \notin {"idle", "sender"}
        /\ hpc = "done" => listCalls = 1
        /\ (ret = "ok" /\ hpc \in {"launch", "done"}) =>
              (recipients = emails /\ resp.status = 200)

\* The sender's lookup failed, both addresses were resolved and both are
\* recipients of the launched SendEmail.
C27_Witness ==
    /\ senderRes.kind = "err"
    /\ Range(emails) = {"a@x.com", "b@x.com"}
    /\ dispatched # <<>> /\ Range(dispatched[1].to) = {"a@x.com", "b@x.com"}

\* C28 (SpecAuth): a callback that is past ValidateState holds a state that is
\* no longer in the store, and a state that validated once is never in the
\* store again and never validates a second time, whatever became of the
\* callback that consumed it.
C28_ConsumedAtValidation ==
    /\ \A p \in Procs :
          cb[p].pc \in {"getcreds", "exchange", "save"} =>
              (cb[p].val.valid /\ cb[p].val.state \notin DOMAIN states)
    /\ \A t \in Tokens : okCount[t] >= 1 => (t \notin DOMAIN states /\ okCount[t] = 1)

\* The only callback whose state validated failed after the exchange, and a
\* further callback presenting that state was rejected as already used.
C28_Witness ==
    /\ lastCb.exchanged /\ lastCb.resp.status = 500
    /\ okCount["s1"] + okCount["s2"] = 1
    /\ \E x \in cbRejected :
          x.class = "consumed" /\ x.resp = HttpReply(400, "Invalid state parameter")

\* C29 (SpecStore): the step on which GenerateState returns removes from the
\* store exactly the states whose expiry is earlier than the clock, changes
\* no state that stays, and leaves the state just issued present and not
\* expired.
C29_CleanupExact ==
    [][\A p \in Procs :
          (ppc[p] = "g_cleanup" /\ ppc'[p] = "idle") =>
              /\ DOMAIN states' = {t \in DOMAIN states : states[t].expiry >= now}
              /\ \A t \in DOMAIN states' : states'[t] = states[t]
              /\ parg[p].state \in DOMAIN states'
              /\ states'[parg[p].state].userID = parg[p].userID
              /\ states'[parg[p].state].expiry >= now']_vars

\* Both states were issued and no ValidateState call has returned: s1 is gone
\* because the GenerateState call that issued s2 cleaned it up as expired.
C29_Witness ==
    /\ issued["s1"] # NotIssued /\ issued["s2"] # NotIssued
    /\ lastV = NoCall
    /\ \A p \in Procs : ppc[p] = "idle"
    /\ DOMAIN states = {"s2"}

\* C30 (SpecAuth): no step of a callback other than its save changes the
\* credential store, a callback reaches its save only with a non-empty
\* refresh token in hand, and a callback that ends at the exchange with a
\* redirect has written nothing.
C30_NoRefreshTokenNoWrite ==
    [][\A p \in Procs :
          /\ (cb'[p] # cb[p] /\ cb[p].pc # "save") => credentials' = credentials
          /\ cb'[p].pc = "save" => cb'[p].creds.refresh # ""
          /\ (cb[p].pc = "exchange" /\ cb'[p].pc = "idle" /\ lastCb'.resp.status = 307) =>
                (~lastCb'.wrote /\ lastCb'.resp = HttpReply(307, "SuccessURL"))]_vars

\* The last callback exchanged its code, got no refresh token, wrote nothing
\* and was redirected; the record still holds the refresh token an earlier
\* callback saved.
C30_Witness ==
    /\ lastCb.exchanged /\ ~lastCb.wrote
    /\ lastCb.resp = HttpReply(307, "SuccessURL")
    /\ "owner1" \in DOMAIN credentials /\ credentials["owner1"].refresh = "r1"

\* C21 (SpecCreds): the map assignment of a callback's save leaves the bot
\* token, client id and secret of the user's record as the last completed
\* save had left them.
C21_CallbackMergesIntoCurrent ==
    [][\A p \in Procs :
          (cpc[p] = "s_assigned" /\ cpc'[p] = "s_open" /\ cjob[p].kind = "callback") =>
              credentials'[cjob[p].userID].posted = lastSave[cjob[p].userID].posted]_vars

\* C22 (SpecCreds): a team is registered, a state is in the store and an
\* initiation is at or past its registration step only for users whose
\* record a SaveCredentials call has written to the file; a user whose
\* initiation was answered with auth_url has a record with the posted
\* credentials in the map, so GetSlackToken finds it.
C22_PersistedFirst ==
    /\ registered \subseteq persisted
    /\ \A t \in DOMAIN states : states[t].userID \in persisted
    /\ \A p \in Procs : cpc[p] \in {"register", "mint"} => cjob[p].userID \in persisted
    /\ \A u \in urlReturned :
          /\ u \in persisted
          /\ u \in DOMAIN credentials
          /\ credentials[u].posted \in PostedKeys

\* owner1's initiation registered the team and returned the URL, no callback
\* has validated a state, and a reader holding the read lock finds owner1's
\* record.
C22_Witness ==
    /\ "owner1" \in urlReturned /\ "owner1" \in registered
    /\ \A t \in Tokens : okCount[t] = 0
    /\ \E p \in Procs :
          /\ cpc[p] = "g_read"
          /\ cjob[p].kind = "get" /\ cjob[p].userID = "owner1"
          /\ "owner1" \in DOMAIN credentials

\* C23 (SpecCreds): what a GetCredentials call holding the read lock reads is
\* nothing if no save for the user has assigned the map, and otherwise the
\* whole record of the last save that did; no save is in progress while a
\* reader holds the lock; and while no save holds the lock every user's entry
\* is the record of the last save for that user.
C23_ReadsLastSave ==
    /\ \A p \in Procs :
          cpc[p] = "g_read" =>
              LET u == cjob[p].userID
              IN /\ cmu.writer = ""
                 /\ IF lastSave[u] = NoCreds
                    THEN u \notin DOMAIN credentials
                    ELSE u \in DOMAIN credentials /\ credentials[u] = lastSave[u]
    /\ cmu.writer = "" =>
          \A u \in Owners :
              lastSave[u] # NoCreds => (u \in DOMAIN credentials /\ credentials[u] = lastSave[u])

\* A reader holds the read lock on owner1's record while a save of another
\* record for owner1 waits for the lock.
C23_Witness ==
    /\ lastSave["owner1"] # NoCreds
    /\ \E p, q \in Procs :
          /\ cpc[p] = "g_read" /\ cjob[p].userID = "owner1"
          /\ cpc[q] = "s_lock" /\ cjob[q].userID = "owner1"
          /\ cjob[q].creds # lastSave["owner1"]

\* C24 (SpecCreds): the credentials file never holds anything but a complete
\* serialisation of the credential map.
C24_FileNeverPartial ==
    file.kind # "partial"

\* C31 (Spec): a member lookup whose response has no boolean ok field costs
\* that member only: the process keeps running.
C31_MalformedOkIsMemberFailure ==
    (\E i \in DOMAIN gres : gres[i] = PanicOutcome) => ~crashed

\* C32 (Spec): once the member listing was called and failed, or was called
\* for an owner without stored credentials, the response is 500 "Error
\* fetching users", no member goroutine exists, no result was produced and
\* no SendEmail was launched.
C32_ListingFailureIsServerError ==
    (listCalls = 1 /\ (ret = "err" \/ owner \notin CredentialOwners)) =>
        /\ hpc = "done" /\ ret = "err"
        /\ resp = Reply(500, "Error fetching users")
        /\ userIDs = <<>> /\ gpc = <<>> /\ gres = <<>>
        /\ resultChan = <<>> /\ emails = <<>>
        /\ dispatched = <<>>

\* The mapped owner has no stored credentials: the listing failed and the
\* webhook was answered 500.
C32_Witness ==
    /\ owner = "owner2" /\ listCalls = 1
    /\ ret = "err" /\ resp.status = 500

\* C33 (SpecMailLive): a SendEmail call that started ends delivered or failed
\* and stays so; the sender's address is fetched only after a client was
\* obtained and submission starts only after the address was fetched; a
\* profile fetch that fails (as it must on a done context) ends the call
\* failed without any submission attempt; no acquisition attempt follows a
\* successful acquisition and nothing is attempted after the call has ended.
C33_DeliveredOrFailed ==
    /\ [][/\ (mpc' = "profile" /\ mpc # "profile") => mpc = "acquire"
          /\ (mpc' = "send" /\ mpc # "send") => mpc \in {"profile", "sleepS"}
          /\ sendAttempts' > sendAttempts => (mpc = "send" /\ acqAttempts >= 1)
          /\ (mpc = "profile" /\ mpc' = "failed") => sendAttempts' = 0
          /\ (mpc = "profile" /\ mctxDone /\ mpc' # mpc) => mpc' = "failed"
          /\ acqAttempts' > acqAttempts => mpc = "acquire"
          /\ mpc \in {"profile", "send", "sleepS"} => acqAttempts' = acqAttempts
          /\ mpc \in {"delivered", "failed"} =>
                (mpc' = mpc /\ acqAttempts' = acqAttempts /\ sendAttempts' = sendAttempts)]_vars
    /\ (mpc = "acquire") ~> (mpc \in {"delivered", "failed"})

\* The client was obtained at the first attempt, the profile fetch failed and
\* the call ended failed without a submission attempt.
C33_Witness ==
    /\ mpc = "failed"
    /\ acqAttempts = 1 /\ sleeps = <<>>
    /\ sendAttempts = 0

\* The members whose goroutine has sent its result.
HasSent(g) == {i \in DOMAIN g : g[i] \in {"release", "done"}}

\* C34 (SpecGate): the result channel grows only by the one send of a member
\* at its lookup, on an open channel with room left, and a member that has
\* sent never sends again; it shrinks only by one receive of the collecting
\* loop; it is closed only when every member is done; and getUserEmails
\* returns only when all N members have sent, the channel is closed and all
\* that was sent has been received.
C34_OneResultPerMember ==
    [][/\ Len(resultChan') > Len(resultChan) =>
             /\ Len(resultChan') = Len(resultChan) + 1
             /\ ~chanClosed
             /\ Len(resultChan) < Len(userIDs)
             /\ Cardinality(HasSent(gpc') \ HasSent(gpc)) = 1
             /\ \A i \in HasSent(gpc') \ HasSent(gpc) : gpc[i] = "lookup"
       /\ HasSent(gpc) \subseteq HasSent(gpc')
       /\ HasSent(gpc') # HasSent(gpc) => Len(resultChan') = Len(resultChan) + 1
       /\ Len(resultChan') < Len(resultChan) =>
             (Len(resultChan') = Len(resultChan) - 1 /\ hpc = "collect" /\ gpc' = gpc)
       /\ (chanClosed' /\ ~chanClosed) => \A i \in DOMAIN gpc : gpc[i] = "done"
       /\ (ret' = "ok" /\ ret # "ok") =>
             /\ chanClosed /\ resultChan = <<>>
             /\ HasSent(gpc) = DOMAIN userIDs]_vars

\* Six members, one more than the semaphore admits at a time: all have sent,
\* the channel is closed and drained and getUserEmails has returned.
C34_Witness ==
    /\ Len(userIDs) = MaxGateMembers
    /\ ret = "ok" /\ chanClosed /\ resultChan = <<>>
    /\ \A i \in DOMAIN gpc : gpc[i] = "done"

\* C35 (SpecAuth): every state in the store, and every state a GenerateState
\* call is about to store, belongs to a user with a record in the credential
\* map; a callback about to look up its user finds a record, and no callback
\* whose state validated was answered 404.
C35_StateOwnersHaveRecords ==
    /\ \A t \in DOMAIN states : states[t].userID \in DOMAIN credentials
    /\ \A p \in Procs :
          /\ ppc[p] \in {"g_lock", "g_insert", "g_cleanup"} =>
                parg[p].userID \in DOMAIN credentials
          /\ cb[p].pc = "getcreds" => cb[p].userID \in DOMAIN credentials
    /\ lastCb.resp.status # 404

\* A callback whose state validated read its user's record and went on to the
\* exchange while another state is still held in the store.
C35_Witness ==
    /\ lastCb.valid /\ lastCb.read /\ lastCb.exchanged
    /\ lastCb.userID = "owner1"
    /\ DOMAIN states # {}

\* C36 (SpecCreds): while no save is in progress the credential map equals
\* the last snapshot written to the file (the empty map when no file was
\* written), so a save that returned an error left no trace in the map.
C36_FailedSaveLeavesMap ==
    cmu.writer = "" =>
        /\ file.kind = "none" => credentials = NoFile.data
        /\ file.kind = "snapshot" => credentials = file.data

\* C37 (SpecAuth): no step replaces a non-empty refresh token in a user's
\* record by an empty one.
C37_RefreshTokenKept ==
    [][\A u \in DOMAIN credentials :
          credentials[u].refresh # "" =>
              (u \in DOMAIN credentials' /\ credentials'[u].refresh # "")]_vars

=============================================================================
